---- MODULE Spec2Model ----
(***************************************************************************)
(* Multi-tier element resolution engine of computer-use: the platform      *)
(* accessibility backends (macOS, Windows, Linux), the element registry    *)
(* and caches, and the click orchestrator (ClickElementTool._run).         *)
(*                                                                         *)
(* Strings are sequences of ASCII codes so that lower(), strip() and the   *)
(* substring test `a in b` are computed as Python computes them.  None and *)
(* the empty string are both the empty sequence (both are falsy).          *)
(* An optional value is <<>> (None) or <<v>>.                              *)
(***************************************************************************)
EXTENDS Integers, Sequences, FiniteSets, TLC

VARIABLES running, frontmost, shown, win, mac, lin, shot, crew, agent, call

vars == <<running, frontmost, shown, win, mac, lin, shot, crew, agent, call>>

-----------------------------------------------------------------------------
(* Bounds of the model *)

MaxEpoch == 1

\* traversals of the macOS backend in one run
MaxGen == 2

(* Program constants *)

screen_width == 1920

screen_height == 1080

Win_max_depth == 25

Mac_max_depth == 40

Lin_max_depth == 25

\* get_timing_config().accessibility_retry_count
accessibility_retry_count == 3

\* the confidence (in percent) a vision candidate has to exceed
\* (ElementDetector.locate_element: confidence > 0.6)
MinConfidence == 60

-----------------------------------------------------------------------------
(* Python string primitives *)

Lower(c) == IF c >= 65 /\ c <= 90 THEN c + 32 ELSE c

LowerStr(s) == [i \in 1..Len(s) |-> Lower(s[i])]

\* Python `needle in hay`
Contains(needle, hay) ==
    \E i \in 0..(Len(hay) - Len(needle)) : SubSeq(hay, i + 1, i + Len(needle)) = needle

\* Python hay.startswith(prefix)
StartsWith(hay, prefix) ==
    Len(prefix) <= Len(hay) /\ SubSeq(hay, 1, Len(prefix)) = prefix

RECURSIVE LStrip(_)
LStrip(s) == IF s # <<>> /\ Head(s) = 32 THEN LStrip(Tail(s)) ELSE s

RECURSIVE RStrip(_)
RStrip(s) == IF s # <<>> /\ s[Len(s)] = 32 THEN RStrip(SubSeq(s, 1, Len(s) - 1)) ELSE s

Strip(s) == RStrip(LStrip(s))

\* a local assignment `x = e` followed by the statements F that read x
Bind(e, F(_)) == F(e)

-----------------------------------------------------------------------------
(* The desktop: two applications and their accessibility trees *)

sCalc  == <<67, 97, 108, 99>>
scalc  == <<99, 97, 108, 99>>
sNotes == <<78, 111, 116, 101, 115>>
sOK    == <<79, 75>>
sOk    == <<79, 107>>
s7     == <<55>>

sMenu  == <<77, 101, 110, 117>>

sFile  == <<70, 105, 108, 101>>

sOpen  == <<79, 112, 101, 110>>

sHelp  == <<72, 101, 108, 112>>

Apps == {1, 2}

AppName == (1 :> sCalc) @@ (2 :> sNotes)

\* the names the Windows operations are exercised with
WinReqNames == {scalc, sNotes}

Nodes == 1..5

\* the menu of the Calc window: its menu bar, the File menu of the bar with
\* its Open item, and a Help button placed in the bar.  An application shows
\* them only in a session that starts with them shown.
MenuNodes == 6..9

\* parent = 0: a top-level window of the application.  The Notes window is
\* parked partly off-screen, so its geometry is out of the display's bounds.
NodeTab ==
    (1 :> [app |-> 1, parent |-> 0, role |-> "Window", label |-> sCalc,
           x |-> 100, y |-> 100, w |-> 400, h |-> 1000, enabled |-> TRUE, press |-> FALSE])
 @@ (2 :> [app |-> 1, parent |-> 1, role |-> "Group", label |-> <<>>,
           x |-> 100, y |-> 100, w |-> 200, h |-> 100, enabled |-> TRUE, press |-> TRUE])
 @@ (3 :> [app |-> 1, parent |-> 2, role |-> "StaticText", label |-> s7,
           x |-> 110, y |-> 110, w |-> 20, h |-> 20, enabled |-> FALSE, press |-> FALSE])
 @@ (4 :> [app |-> 1, parent |-> 1, role |-> "Button", label |-> sOK,
           x |-> 100, y |-> 330, w |-> 40, h |-> 20, enabled |-> TRUE, press |-> TRUE])
 @@ (5 :> [app |-> 2, parent |-> 0, role |-> "Window", label |-> sNotes,
           x |-> 0 - 50, y |-> 100, w |-> 400, h |-> 300, enabled |-> TRUE, press |-> FALSE])
 @@ (6 :> [app |-> 1, parent |-> 1, role |-> "MenuBar", label |-> sMenu,
           x |-> 100, y |-> 100, w |-> 400, h |-> 20, enabled |-> TRUE, press |-> FALSE])
 @@ (7 :> [app |-> 1, parent |-> 6, role |-> "Menu", label |-> sFile,
           x |-> 100, y |-> 100, w |-> 40, h |-> 20, enabled |-> TRUE, press |-> TRUE])
 @@ (8 :> [app |-> 1, parent |-> 7, role |-> "MenuItem", label |-> sOpen,
           x |-> 100, y |-> 120, w |-> 80, h |-> 20, enabled |-> TRUE, press |-> TRUE])
 @@ (9 :> [app |-> 1, parent |-> 6, role |-> "Button", label |-> sHelp,
           x |-> 440, y |-> 100, w |-> 40, h |-> 20, enabled |-> TRUE, press |-> TRUE])

\* nodes that the application may add to or remove from its tree at any time
Dynamic == {4}

ClickTypes == {"single", "double", "right"}

\* what the platform does with a click: the native action works, or it raises
\* and the synthetic pointer click works, or both raise
ClickOutcomes ==
    {[nativeOk |-> TRUE, coordOk |-> TRUE], [nativeOk |-> FALSE, coordOk |-> TRUE],
     [nativeOk |-> FALSE, coordOk |-> FALSE]}

RECURSIVE SetToSeq(_)
SetToSeq(S) ==
    IF S = {} THEN <<>>
    ELSE LET m == CHOOSE x \in S : \A y \in S : x <= y IN <<m>> \o SetToSeq(S \ {m})

\* nodes whose native tree may be cyclic: such a node n lists itself among its
\* own children while -n is in the set of shown nodes
Cyclic == {4}

\* node.children(): the children present in the tree, in document order
Children(n, sh) ==
    SetToSeq({k \in Nodes \cup MenuNodes : NodeTab[k].parent = n /\ k \in sh})
      \o (IF n \in Cyclic /\ (0 - n) \in sh THEN <<n>> ELSE <<>>)

\* desktop.windows(): the top-level windows of the running applications
DesktopWindows(run) ==
    SetToSeq({k \in Nodes : NodeTab[k].parent = 0 /\ NodeTab[k].app \in run})

\* title of a top-level window
WindowText(n) == NodeTab[n].label

-----------------------------------------------------------------------------
(* Windows backend: WindowsAccessibility (windows/accessibility.py) with the *)
(* VersionedElementRegistry and the AccessibilityCacheManager.               *)
(* win = [available, epoch, reg, apps, elems]                                *)
(*   epoch : the registry's global epoch                                     *)
(*   reg   : element id -> [element_info, native_ref, epoch]                 *)
(*   apps  : cache key -> application window (the app cache)                 *)
(*   elems : cache key -> element list (the element cache)                   *)

\* role_normalizer.normalize_windows_element: the platform-independent
\* record of a node, or None for degenerate or out-of-bounds geometry
normalize_windows_element(n, app_name) ==
    LET nd == NodeTab[n] IN
    IF nd.w <= 0 \/ nd.h <= 0 \/ nd.x < 0 \/ nd.y < 0
       \/ nd.x + nd.w > screen_width \/ nd.y + nd.h > screen_height
    THEN <<>>
    ELSE <<[node |-> n, label |-> nd.label, role |-> nd.role,
            center |-> <<nd.x + nd.w \div 2, nd.y + nd.h \div 2>>,
            bounds |-> <<nd.x, nd.y, nd.w, nd.h>>,
            enabled |-> nd.enabled, app_name |-> app_name]>>

\* the registry's stable semantic id of an element
ElementId(info) == <<info.app_name, info.node>>

\* VersionedElementRegistry.register_element: store (record, native_ref, epoch)
\* under the element's id and return the id
Reg_register_element(st, info) ==
    [st EXCEPT !.reg = (ElementId(info) :>
                          [element_info |-> info, native_ref |-> info.node,
                           epoch |-> st.epoch]) @@ st.reg]

\* VersionedElementRegistry.get_element's status: not_found | stale | fresh
Reg_status(st, id) ==
    IF id \notin DOMAIN st.reg THEN "not_found"
    ELSE IF st.reg[id].epoch < st.epoch THEN "stale"
    ELSE "fresh"

\* VersionedElementRegistry.get_element's record (None for an unknown id)
Reg_record(st, id) == IF id \in DOMAIN st.reg THEN <<st.reg[id]>> ELSE <<>>

\* VersionedElementRegistry.advance_epoch: a strictly monotonic counter
Reg_advance_epoch(st) == [st EXCEPT !.epoch = st.epoch + 1]

\* the cache key "<app>:<interactive_only>" of an element list
ElemKey(app_name, interactive_only) == <<LowerStr(app_name), interactive_only>>

\* keep the entries of function f whose key satisfies Keep
Restrict(f, Keep(_)) == [k \in {x \in DOMAIN f : Keep(x)} |-> f[k]]

EmptyMap == [k \in {} |-> 0]

\* AccessibilityCacheManager.on_interaction: drop the element lists of the
\* application (of every application when none is named)
Cache_on_interaction(st, app_name) ==
    LET NotOfApp(k) == app_name # <<>> /\ k[1] # LowerStr(app_name) IN
    [st EXCEPT !.elems = Restrict(st.elems, NotOfApp)]

\* AccessibilityCacheManager.invalidate: explicit cache clear of the
\* application's handle and element lists (of everything when none is named)
Cache_invalidate(st, app_name) ==
    LET NotOfApp(k) == app_name # <<>> /\ k[1] # LowerStr(app_name)
        NotApp(k) == app_name # <<>> /\ k # LowerStr(app_name) IN
    [st EXCEPT !.elems = Restrict(st.elems, NotOfApp),
               !.apps = Restrict(st.apps, NotApp)]

\* WindowsAccessibility._matches_name / MacOSAccessibility._matches_name
matches_name(name1, name2) ==
    /\ name1 # <<>>
    /\ name2 # <<>>
    /\ \/ Contains(LowerStr(name1), LowerStr(name2))
       \/ Contains(LowerStr(name2), LowerStr(name1))

\* first element of a sequence satisfying P, as an optional
FirstWhere(seq, P(_)) ==
    Bind(SelectSeq(seq, P), LAMBDA s : IF s = <<>> THEN <<>> ELSE <<Head(s)>>)

\* WindowsAccessibility.get_app -> [st, app] (app: optional window node)
Win_get_app(st, run, app_name) ==
    IF ~st.available \/ app_name = <<>> THEN [st |-> st, app |-> <<>>]
    ELSE IF LowerStr(app_name) \in DOMAIN st.apps
    THEN [st |-> st, app |-> <<st.apps[LowerStr(app_name)]>>]
    ELSE Bind(FirstWhere(DesktopWindows(run),
                         LAMBDA w : matches_name(WindowText(w), app_name)),
              LAMBDA found :
                 IF found # <<>>
                 THEN [st |-> [st EXCEPT !.apps = (LowerStr(app_name) :> found[1]) @@ st.apps],
                       app |-> found]
                 ELSE [st |-> st, app |-> <<>>])

\* WindowsAccessibility._is_element_interactive
Win_is_element_interactive(n) == NodeTab[n].enabled

\* the nodes _traverse visits, in order, down to _max_depth
RECURSIVE Win_visit(_, _, _), Win_visit_children(_, _, _)
Win_visit(n, depth, sh) ==
    IF depth > Win_max_depth THEN <<>>
    ELSE <<n>> \o Win_visit_children(Children(n, sh), depth + 1, sh)
Win_visit_children(kids, depth, sh) ==
    IF kids = <<>> THEN <<>>
    ELSE Win_visit(Head(kids), depth, sh) \o Win_visit_children(Tail(kids), depth, sh)

\* _register_element that lists the element without registering it
Win_register_element_unregistered(st, n, app_name, elements) ==
    LET normalized == normalize_windows_element(n, app_name) IN
    IF normalized = <<>> THEN [st |-> st, elements |-> elements]
    ELSE LET info == normalized[1] IN
         [st |-> st,
          elements |-> Append(elements,
                              [element_id |-> ElementId(info), node |-> n,
                               label |-> info.label, role |-> info.role,
                               center |-> info.center, bounds |-> info.bounds,
                               enabled |-> info.enabled, app_name |-> app_name,
                               is_bottom |-> 4 * info.center[2] > 3 * screen_height])]

\* WindowsAccessibility._register_element -> [st, elements]
Win_register_element(st, n, app_name, elements) ==
    LET normalized == normalize_windows_element(n, app_name) IN
    IF normalized = <<>> THEN [st |-> st, elements |-> elements]
    ELSE LET info == normalized[1]
             elem == [element_id |-> ElementId(info), node |-> n,
                      label |-> info.label, role |-> info.role,
                      center |-> info.center, bounds |-> info.bounds,
                      enabled |-> info.enabled, app_name |-> app_name,
                      is_bottom |-> 4 * info.center[2] > 3 * screen_height] IN
         [st |-> Reg_register_element(st, info),
          elements |-> Append(elements, elem)]

\* WindowsAccessibility._traverse over the visited nodes -> [st, elements]
RECURSIVE Win_traverse(_, _, _, _, _)
Win_traverse(st, visit, elements, interactive_only, app_name) ==
    IF visit = <<>> THEN [st |-> st, elements |-> elements]
    ELSE IF ~interactive_only \/ Win_is_element_interactive(Head(visit))
    THEN Bind(Win_register_element(st, Head(visit), app_name, elements),
              LAMBDA r : Win_traverse(r.st, Tail(visit), r.elements,
                                      interactive_only, app_name))
    ELSE Win_traverse(st, Tail(visit), elements, interactive_only, app_name)

\* WindowsAccessibility.get_elements -> [st, elements, traversed]
Win_get_elements(st, run, sh, app_name, interactive_only, use_cache) ==
    IF ~st.available THEN [st |-> st, elements |-> <<>>, traversed |-> FALSE]
    ELSE IF use_cache /\ ElemKey(app_name, interactive_only) \in DOMAIN st.elems
    THEN [st |-> st, elements |-> st.elems[ElemKey(app_name, interactive_only)],
          traversed |-> FALSE]
    ELSE Bind(Win_get_app(st, run, app_name), LAMBDA ga :
           IF ga.app = <<>> THEN [st |-> ga.st, elements |-> <<>>, traversed |-> FALSE]
           ELSE Bind(Win_traverse(ga.st, Win_visit(ga.app[1], 0, sh), <<>>,
                                  interactive_only, LowerStr(app_name)),
                     LAMBDA r :
                       [st |-> [r.st EXCEPT !.elems =
                                   (ElemKey(app_name, interactive_only) :> r.elements)
                                       @@ r.st.elems],
                        elements |-> r.elements, traversed |-> TRUE]))

\* click_type as _perform_click and click_by_id normalise it
NormClick(click_type) ==
    IF click_type = "double" THEN "double"
    ELSE IF click_type = "right" THEN "right"
    ELSE "single"

\* one dispatched pointer action
Click(via, node, at, click_type) ==
    [via |-> via, node |-> node, at |-> at, kind |-> NormClick(click_type)]

\* click_by_id on a fresh record that advances the epoch and drops the
\* application's cached lists before it knows whether a click worked
Win_click_fresh_eager(st, element_id, click_type, nativeOk, coordOk) ==
    LET app_name == st.reg[element_id].element_info.app_name
        done == Cache_on_interaction(Reg_advance_epoch(st), app_name) IN
    IF nativeOk \/ coordOk
    THEN [st |-> done, ok |-> TRUE, msg |-> "clicked", status |-> "fresh",
          clicks |-> <<Click("coord", 0, st.reg[element_id].element_info.center,
                             click_type)>>,
          trace |-> <<"coord">>]
    ELSE [st |-> done, ok |-> FALSE, msg |-> "coord_failed", status |-> "fresh",
          clicks |-> <<>>, trace |-> <<"coord">>]

\* WindowsAccessibility.click_by_id on a fresh record (lines 218-253):
\* the native click on the element, then a coordinate click at its center
\* nativeOk: node.click_input() does not raise; coordOk: pyautogui.click does not
Win_click_fresh(st, element_id, click_type, nativeOk, coordOk) ==
    LET record == st.reg[element_id]
        element_info == record.element_info
        node == record.native_ref
        app_name == element_info.app_name
        center == element_info.center
        done == Cache_on_interaction(Reg_advance_epoch(st), app_name)
        tried == IF node # 0 THEN <<"native">> ELSE <<>> IN
    IF node # 0 /\ nativeOk
    THEN [st |-> done, ok |-> TRUE, msg |-> "clicked", status |-> "fresh",
          clicks |-> <<Click("native", node, <<>>, click_type)>>,
          trace |-> <<"native">>]
    ELSE IF Len(center) = 2
    THEN IF coordOk
         THEN [st |-> done, ok |-> TRUE, msg |-> "clicked_at", status |-> "fresh",
               clicks |-> <<Click("coord", 0, center, click_type)>>,
               trace |-> tried \o <<"coord">>]
         ELSE [st |-> st, ok |-> FALSE, msg |-> "coord_failed", status |-> "fresh",
               clicks |-> <<>>, trace |-> tried \o <<"coord">>]
    ELSE [st |-> st, ok |-> FALSE, msg |-> "no_method", status |-> "fresh",
          clicks |-> <<>>, trace |-> tried]

\* click_by_id without the stale check: a stale record is clicked like a fresh one
Win_click_by_id_unchecked(st, element_id, click_type, nativeOk, coordOk) ==
    LET status == Reg_status(st, element_id) IN
    IF ~st.available \/ status = "not_found"
    THEN [st |-> st, ok |-> FALSE, msg |-> "not_found_refresh",
          status |-> status, clicks |-> <<>>, trace |-> <<>>]
    ELSE [Win_click_fresh(st, element_id, click_type, nativeOk, coordOk)
            EXCEPT !.status = status]

\* WindowsAccessibility.click_by_id -> [st, ok, msg, status, clicks, trace]
Win_click_by_id(st, element_id, click_type, nativeOk, coordOk) ==
    LET status == Reg_status(st, element_id)
        Fail(m) == [st |-> st, ok |-> FALSE, msg |-> m,
                    status |-> status, clicks |-> <<>>, trace |-> <<>>] IN
    IF ~st.available
    THEN [st |-> st, ok |-> FALSE, msg |-> "unavailable",
          status |-> "", clicks |-> <<>>, trace |-> <<>>]
    ELSE IF status = "not_found" THEN Fail("not_found_refresh")
    ELSE IF status = "stale" THEN Fail("stale_refresh")
    ELSE Win_click_fresh(st, element_id, click_type, nativeOk, coordOk)

\* a walk up the ancestors that never stops at max_depth
RECURSIVE Win_click_parents_unbounded(_, _, _, _, _)
Win_click_parents_unbounded(st, current, depth, max_depth, accept) ==
    IF NodeTab[current].parent = 0
    THEN [st |-> st, ok |-> FALSE, msg |-> "not_clickable", depth |-> 0, clicks |-> <<>>]
    ELSE IF NodeTab[current].parent \in accept
    THEN [st |-> Cache_on_interaction(Reg_advance_epoch(st), <<>>), ok |-> TRUE,
          msg |-> "parent", depth |-> depth,
          clicks |-> <<Click("native", NodeTab[current].parent, <<>>, "single")>>]
    ELSE Win_click_parents_unbounded(st, NodeTab[current].parent, depth + 1,
                                     max_depth, accept)

\* the walk up the ancestors of click_element_or_parent (lines 473-487):
\* the first ancestor, at most max_depth levels up, whose click_input works
\* accept: the nodes whose click_input does not raise
RECURSIVE Win_click_parents(_, _, _, _, _)
Win_click_parents(st, current, depth, max_depth, accept) ==
    IF depth > max_depth \/ NodeTab[current].parent = 0
    THEN [st |-> st, ok |-> FALSE, msg |-> "not_clickable", depth |-> 0, clicks |-> <<>>]
    ELSE IF NodeTab[current].parent \in accept
    THEN [st |-> Cache_on_interaction(Reg_advance_epoch(st), <<>>), ok |-> TRUE,
          msg |-> "parent", depth |-> depth,
          clicks |-> <<Click("native", NodeTab[current].parent, <<>>, "single")>>]
    ELSE Win_click_parents(st, NodeTab[current].parent, depth + 1, max_depth, accept)

\* click_element_or_parent that clicks without advancing the epoch
Win_click_element_or_parent_no_epoch(st, node, max_depth, accept) ==
    IF ~st.available
    THEN [st |-> st, ok |-> FALSE, msg |-> "unavailable", depth |-> 0, clicks |-> <<>>]
    ELSE IF node = <<>>
    THEN [st |-> st, ok |-> FALSE, msg |-> "no_reference", depth |-> 0, clicks |-> <<>>]
    ELSE IF node[1] \in accept
    THEN [st |-> Cache_on_interaction(st, <<>>), ok |-> TRUE, msg |-> "element",
          depth |-> 0, clicks |-> <<Click("native", node[1], <<>>, "single")>>]
    ELSE Win_click_parents(st, node[1], 1, max_depth, accept)

\* WindowsAccessibility.click_element_or_parent(element_dict, max_depth)
\* node: the element's native reference, <<>> when the dictionary has none
\* -> [st, ok, msg, depth, clicks]
Win_click_element_or_parent(st, node, max_depth, accept) ==
    IF ~st.available
    THEN [st |-> st, ok |-> FALSE, msg |-> "unavailable", depth |-> 0, clicks |-> <<>>]
    ELSE IF node = <<>>
    THEN [st |-> st, ok |-> FALSE, msg |-> "no_reference", depth |-> 0, clicks |-> <<>>]
    ELSE IF node[1] \in accept
    THEN [st |-> Cache_on_interaction(Reg_advance_epoch(st), <<>>), ok |-> TRUE,
          msg |-> "element", depth |-> 0,
          clicks |-> <<Click("native", node[1], <<>>, "single")>>]
    ELSE Win_click_parents(st, node[1], 1, max_depth, accept)

\* invalidate_cache that clears the caches but forgets to advance the epoch
Win_invalidate_cache_no_epoch(st, app_name) == Cache_invalidate(st, app_name)

\* WindowsAccessibility.invalidate_cache
Win_invalidate_cache(st, app_name) ==
    Reg_advance_epoch(Cache_invalidate(st, app_name))

\* WindowsAccessibility.get_element_by_id: the record's element_info or None
Win_get_element_by_id(st, element_id) ==
    LET record == Reg_record(st, element_id) IN
    IF record # <<>> THEN <<record[1].element_info>> ELSE <<>>

\* the label test of find_element / find_elements (identifier is empty)
LabelMatches(label, elem) == Contains(LowerStr(label), LowerStr(elem.label))

\* WindowsAccessibility.find_element -> [st, element, traversed]
Win_find_element(st, run, sh, app_name, label) ==
    Bind(Win_get_elements(st, run, sh, app_name, TRUE, TRUE), LAMBDA ge :
        [st |-> ge.st,
         element |-> FirstWhere(ge.elements, LAMBDA e : LabelMatches(label, e)),
         traversed |-> ge.traversed])

\* WindowsAccessibility.click_element -> [st, ok, element, clicks, trace]
Win_click_element(st, run, sh, label, app_name, nativeOk, coordOk) ==
    Bind(Win_find_element(st, run, sh, app_name, label), LAMBDA fe :
        IF ~st.available \/ fe.element = <<>>
        THEN [st |-> fe.st, ok |-> FALSE, element |-> <<>>, status |-> "",
              clicks |-> <<>>, trace |-> <<>>]
        ELSE Bind(Win_click_by_id(fe.st, fe.element[1].element_id, "single",
                                  nativeOk, coordOk),
                  LAMBDA c :
                    [st |-> c.st, ok |-> c.ok, element |-> fe.element,
                     status |-> c.status, clicks |-> c.clicks, trace |-> c.trace]))

-----------------------------------------------------------------------------
(* macOS backend: MacOSAccessibility (macos_accessibility.py).               *)
(* mac = [available, apps, elems, registry, recent, gen]                     *)
(*   apps     : _app_cache, cache key -> application                         *)
(*   elems    : _element_cache, cache key -> element list                    *)
(*   registry : _element_registry, element id -> element                     *)
(*   recent   : less than 2.0 s have passed since _last_interaction_time     *)
(*   gen      : number of traversals so far; uuid4 ids are <<gen, node>>,    *)
(*              never issued twice                                           *)

\* the application found by atomacos: getAppRefByLocalizedName, then the
\* running applications by _matches_name, then the frontmost one if its title
\* matches (get_app, lines 120-157)
Mac_lookup_app(run, front, app_name) ==
    Bind(FirstWhere(SetToSeq(run), LAMBDA a : AppName[a] = app_name), LAMBDA exact :
        IF exact # <<>> THEN exact
        ELSE Bind(FirstWhere(SetToSeq(run),
                             LAMBDA a : matches_name(AppName[a], app_name)),
                  LAMBDA m :
                    IF m # <<>> THEN m
                    ELSE IF front \in run /\ matches_name(AppName[front], app_name)
                    THEN <<front>>
                    ELSE <<>>))

\* MacOSAccessibility.get_app -> [st, app].  The desktop does not change
\* within one call, so the retries (which drop the cache key first) find what
\* the first attempt found.
Mac_get_app(st, run, front, app_name) ==
    IF ~st.available \/ app_name = <<>> THEN [st |-> st, app |-> <<>>]
    ELSE IF LowerStr(Strip(app_name)) \in DOMAIN st.apps
    THEN [st |-> st, app |-> <<st.apps[LowerStr(Strip(app_name))]>>]
    ELSE Bind(Mac_lookup_app(run, front, Strip(app_name)), LAMBDA found :
           IF found # <<>>
           THEN [st |-> [st EXCEPT !.apps = (LowerStr(Strip(app_name)) :> found[1])
                                                @@ st.apps],
                 app |-> found]
           ELSE [st |-> st, app |-> <<>>])

\* MacOSAccessibility.get_windows: the windows of a live application
Mac_get_windows(app, run) ==
    SetToSeq({k \in Nodes : NodeTab[k].parent = 0 /\ NodeTab[k].app = app /\ app \in run})

\* MacOSAccessibility._extract_element_info -> [st, info]: the element record
\* registered under a new id, or None
Mac_extract_element_info(st, n, has_actions, is_enabled) ==
    IF \/ NodeTab[n].w <= 0 \/ NodeTab[n].h <= 0
       \/ NodeTab[n].x < 0 \/ NodeTab[n].y < 0
       \/ NodeTab[n].x > screen_width \/ NodeTab[n].y > screen_height
       \/ (NodeTab[n].label = <<>> /\ ~has_actions)
    THEN [st |-> st, info |-> <<>>]
    ELSE Bind([element_id |-> <<st.gen, n>>, node |-> n,
               label |-> NodeTab[n].label, role |-> NodeTab[n].role,
               center |-> <<(2 * NodeTab[n].x + NodeTab[n].w) \div 2,
                            (2 * NodeTab[n].y + NodeTab[n].h) \div 2>>,
               bounds |-> <<NodeTab[n].x, NodeTab[n].y, NodeTab[n].w, NodeTab[n].h>>,
               has_actions |-> has_actions, enabled |-> is_enabled],
              LAMBDA info :
                [st |-> [st EXCEPT !.registry = (info.element_id :> info) @@ st.registry],
                 info |-> <<info>>])

\* the nodes _traverse visits below node n, in order (depth > 40 stops)
RECURSIVE Mac_visit_deeper(_, _, _), Mac_visit(_, _, _), Mac_visit_children(_, _, _)
\* _traverse that goes one level deeper before it stops
Mac_visit_deeper(n, depth, sh) ==
    IF depth > Mac_max_depth + 1 THEN <<>>
    ELSE <<n>> \o Mac_visit_children(Children(n, sh), depth + 1, sh)

Mac_visit(n, depth, sh) ==
    IF depth > Mac_max_depth THEN <<>>
    ELSE <<n>> \o Mac_visit_children(Children(n, sh), depth + 1, sh)

Mac_visit_children(kids, depth, sh) ==
    IF kids = <<>> THEN <<>>
    ELSE Mac_visit(Head(kids), depth, sh) \o Mac_visit_children(Tail(kids), depth, sh)

\* MacOSAccessibility._traverse over the visited nodes -> [st, elements]
RECURSIVE Mac_traverse(_, _, _, _)
Mac_traverse(st, visit, elements, interactive_only) ==
    IF visit = <<>> THEN [st |-> st, elements |-> elements]
    ELSE IF ~interactive_only \/ NodeTab[Head(visit)].press \/ NodeTab[Head(visit)].enabled
    THEN Bind(Mac_extract_element_info(st, Head(visit), NodeTab[Head(visit)].press,
                                       NodeTab[Head(visit)].enabled),
              LAMBDA r : Mac_traverse(r.st, Tail(visit), elements \o r.info,
                                      interactive_only))
    ELSE Mac_traverse(st, Tail(visit), elements, interactive_only)

\* the windows of an application, each with its subtree, in traversal order
RECURSIVE Mac_visit_windows(_, _)
Mac_visit_windows(windows, sh) ==
    IF windows = <<>> THEN <<>>
    ELSE Mac_visit(Head(windows), 0, sh) \o Mac_visit_windows(Tail(windows), sh)

\* get_elements once the cache missed (lines 209-225)
Mac_get_elements_uncached(st, run, front, sh, app_name, interactive_only) ==
    Bind(Mac_get_app(st, run, front, app_name), LAMBDA ga :
        IF ga.app = <<>> THEN [st |-> ga.st, elements |-> <<>>, traversed |-> FALSE]
        ELSE Bind(Mac_traverse(ga.st, Mac_visit_windows(Mac_get_windows(ga.app[1], run), sh),
                               <<>>, interactive_only),
                  LAMBDA r :
                    [st |-> [r.st EXCEPT !.elems =
                                (ElemKey(app_name, interactive_only) :> r.elements)
                                    @@ r.st.elems,
                                         !.gen = r.st.gen + 1],
                     elements |-> r.elements, traversed |-> TRUE]))

\* the element cache is dropped within 2.0 s of the last interaction
Mac_drop_recent(st) == IF st.recent THEN [st EXCEPT !.elems = EmptyMap] ELSE st

\* MacOSAccessibility.get_elements -> [st, elements, traversed]
Mac_get_elements(st, run, front, sh, app_name, interactive_only, use_cache) ==
    IF ~st.available THEN [st |-> st, elements |-> <<>>, traversed |-> FALSE]
    ELSE Bind(Mac_drop_recent(st), LAMBDA s1 :
           IF use_cache /\ ElemKey(app_name, interactive_only) \in DOMAIN s1.elems
           THEN [st |-> s1, elements |-> s1.elems[ElemKey(app_name, interactive_only)],
                 traversed |-> FALSE]
           ELSE Mac_get_elements_uncached(s1, run, front, sh, app_name, interactive_only))

\* MacOSAccessibility.clear_cache
Mac_clear_cache(st) ==
    [st EXCEPT !.apps = EmptyMap, !.elems = EmptyMap]

\* MacOSAccessibility.set_active_app: drops the element cache and looks the
\* application up, which caches its handle
Mac_set_active_app(st, run, front, app_name) ==
    Mac_get_app([st EXCEPT !.elems = EmptyMap], run, front, app_name).st

\* MacOSAccessibility.invalidate_cache
Mac_invalidate_cache(st) ==
    [st EXCEPT !.elems = EmptyMap, !.registry = EmptyMap, !.recent = TRUE]

\* roles whose Press _find_clickable_parent accepts (without the AX prefix)
clickable_roles ==
    {"Row", "OutlineRow", "Cell", "Button", "MenuItem", "CheckBox", "RadioButton",
     "PopUpButton", "Group"}

\* MacOSAccessibility._find_clickable_parent: the nearest ancestor with a
\* clickable role and a press action, at most `left` levels up
RECURSIVE Mac_find_clickable_parent(_, _)
Mac_find_clickable_parent(current, left) ==
    IF left = 0 \/ NodeTab[current].parent = 0 THEN <<>>
    ELSE IF /\ NodeTab[NodeTab[current].parent].role \in clickable_roles
            /\ NodeTab[NodeTab[current].parent].press
    THEN <<NodeTab[current].parent>>
    ELSE Mac_find_clickable_parent(NodeTab[current].parent, left - 1)

\* the center _click_node computes from AXPosition and AXSize
NodeCenter(n) ==
    <<(2 * NodeTab[n].x + NodeTab[n].w) \div 2, (2 * NodeTab[n].y + NodeTab[n].h) \div 2>>

\* MacOSAccessibility._click_node -> [st, ok, clicks]: Press where the node
\* has it, else a pointer click at the node's center; an exception fails it
\* o.press: Press() does not raise; o.pyauto: pyautogui.click does not raise
Mac_click_node(st, n, o) ==
    IF NodeTab[n].press
    THEN IF o.press
         THEN [st |-> Mac_invalidate_cache(st), ok |-> TRUE,
               clicks |-> <<Click("native", n, <<>>, "single")>>]
         ELSE [st |-> st, ok |-> FALSE, clicks |-> <<>>]
    ELSE IF o.pyauto
         THEN [st |-> Mac_invalidate_cache(st), ok |-> TRUE,
               clicks |-> <<Click("coord", 0, NodeCenter(n), "single")>>]
         ELSE [st |-> st, ok |-> FALSE, clicks |-> <<>>]

\* click_by_id from the coordinate click on (lines 360-374)
Mac_click_by_id_rest(st, element, o, trace) ==
    IF Len(element.center) = 2 /\ o.pyauto
    THEN [st |-> Mac_invalidate_cache(st), ok |-> TRUE, msg |-> "clicked_at",
          clicks |-> <<Click("coord", 0, element.center, "single")>>,
          trace |-> trace \o <<"coord">>]
    ELSE Bind(Mac_click_node(st, element.node, o), LAMBDA r :
           [st |-> r.st, ok |-> r.ok,
            msg |-> IF r.ok THEN "clicked" ELSE "click_failed",
            clicks |-> r.clicks, trace |-> trace \o <<"coord", "native">>])

\* click_by_id of a registered element (lines 348-374): for a text element the
\* clickable ancestor first, then the coordinate click, then the element itself
Mac_click_registered(st, element, o) ==
    IF /\ element.role \in {"StaticText", "Text"}
       /\ Mac_find_clickable_parent(element.node, 5) # <<>>
    THEN Bind(Mac_click_node(st, Mac_find_clickable_parent(element.node, 5)[1], o),
              LAMBDA p :
                IF p.ok
                THEN [st |-> p.st, ok |-> TRUE, msg |-> "clicked",
                      clicks |-> p.clicks, trace |-> <<"parent">>]
                ELSE Mac_click_by_id_rest(st, element, o, <<"parent">>))
    ELSE Mac_click_by_id_rest(st, element, o, <<>>)

\* MacOSAccessibility.click_by_id -> [st, ok, msg, clicks, trace]
Mac_click_by_id(st, element_id, o) ==
    IF ~st.available
    THEN [st |-> st, ok |-> FALSE, msg |-> "unavailable", clicks |-> <<>>, trace |-> <<>>]
    ELSE IF element_id \notin DOMAIN st.registry
    THEN [st |-> st, ok |-> FALSE, msg |-> "not_found", clicks |-> <<>>, trace |-> <<>>]
    ELSE Mac_click_registered(st, st.registry[element_id], o)

\* MacOSAccessibility.find_elements with a label and no role -> [st, elements]
Mac_find_elements(st, run, front, sh, label, app_name) ==
    IF app_name = <<>> THEN [st |-> st, elements |-> <<>>]
    ELSE Bind(Mac_get_elements(st, run, front, sh, app_name, TRUE, TRUE), LAMBDA ge :
           [st |-> ge.st,
            elements |-> IF label = <<>> THEN ge.elements
                         ELSE SelectSeq(ge.elements, LAMBDA e : LabelMatches(label, e))])

\* MacOSAccessibility.find_element -> [st, element]
Mac_find_element(st, run, front, sh, app_name, label) ==
    Bind(Mac_get_elements(st, run, front, sh, app_name, TRUE, TRUE), LAMBDA ge :
        [st |-> ge.st,
         element |-> FirstWhere(ge.elements, LAMBDA e : LabelMatches(label, e))])

\* MacOSAccessibility.click_element -> [st, ok, element, clicks, trace]
Mac_click_element(st, run, front, sh, label, app_name, o) ==
    IF ~st.available
    THEN [st |-> st, ok |-> FALSE, element |-> <<>>, clicks |-> <<>>, trace |-> <<>>]
    ELSE Bind(Mac_find_element(st, run, front, sh, app_name, label), LAMBDA fe :
           IF fe.element = <<>>
           THEN [st |-> fe.st, ok |-> FALSE, element |-> <<>>, clicks |-> <<>>,
                 trace |-> <<>>]
           ELSE Bind(Mac_click_by_id(fe.st, fe.element[1].element_id, o), LAMBDA c :
                  [st |-> c.st, ok |-> c.ok, element |-> fe.element,
                   clicks |-> c.clicks, trace |-> c.trace]))

\* MacOSAccessibility.get_window_bounds -> [st, bounds]
Mac_get_window_bounds(st, run, front, app_name) ==
    IF ~st.available THEN [st |-> st, bounds |-> <<>>]
    ELSE Bind(Mac_get_app(st, run, front, app_name), LAMBDA ga :
           IF ga.app = <<>> \/ Mac_get_windows(ga.app[1], run) = <<>>
           THEN [st |-> ga.st, bounds |-> <<>>]
           ELSE Bind(NodeTab[Head(Mac_get_windows(ga.app[1], run))], LAMBDA w :
                  [st |-> ga.st, bounds |-> <<w.x, w.y, w.w, w.h>>]))

\* MacOSAccessibility.get_app_window_bounds
Mac_get_app_window_bounds(st, run, front, app_name) ==
    IF app_name = <<>> THEN [st |-> st, bounds |-> <<>>]
    ELSE Mac_get_window_bounds(st, run, front, app_name)

-----------------------------------------------------------------------------
(* Vision tier: the OCR tool's reading of a screenshot is a sequence of      *)
(* items [text, center, confidence]; confidence is in percent (0..100), so   *)
(* that confidence * 100 of the code is the integer itself.                  *)

sBack       == <<98, 97, 99, 107>>
sBackground == <<98, 97, 99, 107, 103, 114, 111, 117, 110, 100>>
sBottom     == <<98, 111, 116, 116, 111, 109>>
sTop        == <<116, 111, 112>>
sAbove      == <<97, 98, 111, 118, 101>>
sBelow      == <<98, 101, 108, 111, 119>>
sMiddle     == <<109, 105, 100, 100, 108, 101>>
sCenter     == <<99, 101, 110, 116, 101, 114>>
sLeft       == <<108, 101, 102, 116>>
sRight      == <<114, 105, 103, 104, 116>>
sFirst      == <<102, 105, 114, 115, 116>>
sLast       == <<108, 97, 115, 116>>

\* "empty space", "blank area", "empty area", "blank space", "background"
empty_space_keywords ==
    {<<101, 109, 112, 116, 121, 32, 115, 112, 97, 99, 101>>,
     <<98, 108, 97, 110, 107, 32, 97, 114, 101, 97>>,
     <<101, 109, 112, 116, 121, 32, 97, 114, 101, 97>>,
     <<98, 108, 97, 110, 107, 32, 115, 112, 97, 99, 101>>,
     sBackground}

\* what the OCR tool may read off the screenshot of one request
OcrReadings ==
    {<<>>,
     <<[text |-> s7, center |-> <<40, 60>>, confidence |-> 30],
       [text |-> sOk, center |-> <<240, 680>>, confidence |-> 90]>>,
     <<[text |-> sBack, center |-> <<20, 20>>, confidence |-> 45],
       [text |-> sOK, center |-> <<100, 50>>, confidence |-> 95],
       [text |-> sOK, center |-> <<100, 500>>, confidence |-> 80]>>}

\* OCRTool.find_text(screenshot, target, fuzzy=True): the items whose text
\* contains the target, case-insensitively, in reading order
OCR_find_text(reading, target) ==
    SelectSeq(reading, LAMBDA item : Contains(LowerStr(target), LowerStr(item.text)))

\* OCRTool.extract_all_text(screenshot)
OCR_extract_all_text(reading) == reading

\* sorted(all_text, key=(center[1], center[0])): a stable insertion sort
RECURSIVE InsertByPos(_, _)
InsertByPos(item, sorted) ==
    IF sorted = <<>> THEN <<item>>
    ELSE IF \/ item.center[2] < Head(sorted).center[2]
            \/ (item.center[2] = Head(sorted).center[2]
                  /\ item.center[1] < Head(sorted).center[1])
    THEN <<item>> \o sorted
    ELSE <<Head(sorted)>> \o InsertByPos(item, Tail(sorted))

RECURSIVE SortByPos(_)
SortByPos(items) ==
    IF items = <<>> THEN <<>>
    ELSE InsertByPos(items[Len(items)], SortByPos(SubSeq(items, 1, Len(items) - 1)))

\* the vertical filter of the spatial filtering (lines 201-220)
FilterVertical(all_text, ctx, height) ==
    IF Contains(sTop, ctx) \/ Contains(sAbove, ctx)
    THEN SelectSeq(all_text, LAMBDA item : 10 * item.center[2] < 4 * height)
    ELSE IF Contains(sBottom, ctx) \/ Contains(sBelow, ctx)
    THEN SelectSeq(all_text, LAMBDA item : 10 * item.center[2] > 6 * height)
    ELSE IF Contains(sMiddle, ctx) \/ Contains(sCenter, ctx)
    THEN SelectSeq(all_text, LAMBDA item : 3 * height < 10 * item.center[2]
                                            /\ 10 * item.center[2] < 7 * height)
    ELSE all_text

\* the horizontal filter (lines 223-234)
FilterHorizontal(all_text, ctx, width) ==
    IF Contains(sLeft, ctx)
    THEN SelectSeq(all_text, LAMBDA item : 10 * item.center[1] < 4 * width)
    ELSE IF Contains(sRight, ctx)
    THEN SelectSeq(all_text, LAMBDA item : 10 * item.center[1] > 6 * width)
    ELSE all_text

\* the order filter (lines 237-244): the first or the last three by position
FilterOrder(all_text, ctx) ==
    IF Contains(sFirst, ctx)
    THEN Bind(SortByPos(all_text), LAMBDA s : SubSeq(s, 1, IF Len(s) < 3 THEN Len(s) ELSE 3))
    ELSE IF Contains(sLast, ctx)
    THEN Bind(SortByPos(all_text),
              LAMBDA s : SubSeq(s, IF Len(s) < 3 THEN 1 ELSE Len(s) - 2, Len(s)))
    ELSE all_text

\* spatial filtering of the candidates by visual_context (lines 195-244)
SpatialFilter(all_text, visual_context, width, height) ==
    IF visual_context = <<>> THEN all_text
    ELSE FilterOrder(FilterHorizontal(FilterVertical(all_text, LowerStr(visual_context),
                                                     height),
                                      LowerStr(visual_context), width),
                     LowerStr(visual_context))

\* the score of one item against the target (lines 250-264); <<>>: skipped
Score(text_lower, target_lower, confidence) ==
    IF text_lower = target_lower THEN <<1000 + confidence>>
    ELSE IF StartsWith(text_lower, target_lower) THEN <<700 + confidence>>
    ELSE IF Contains(target_lower, text_lower)
    THEN <<400 - (Len(text_lower) - Len(target_lower)) + confidence>>
    ELSE IF StartsWith(target_lower, text_lower) /\ Len(text_lower) >= 3
    THEN <<300 + confidence>>
    ELSE <<>>

\* the best-scoring item (lines 246-268): the first one of the highest score
RECURSIVE BestMatch(_, _, _, _)
BestMatch(all_text, target_lower, best_match, best_score) ==
    IF all_text = <<>> THEN best_match
    ELSE Bind(Score(Strip(LowerStr(Head(all_text).text)), target_lower,
                    Head(all_text).confidence),
              LAMBDA score :
                IF score # <<>> /\ score[1] > best_score
                THEN BestMatch(Tail(all_text), target_lower, <<Head(all_text)>>, score[1])
                ELSE BestMatch(Tail(all_text), target_lower, best_match, best_score))

-----------------------------------------------------------------------------
(* The click orchestrator: ClickElementTool._run (gui_interaction_tools.py)   *)
(* over the macOS backend.                                                   *)
(*   rq = [target, visual_context, click_type, current_app]  the request     *)
(*   ev = [reading, scaling, o, run, front, sh]   what the request meets:    *)
(*        the OCR reading, the display's scaling factor, the outcomes of     *)
(*        the click primitives, and the desktop                              *)
(* A result is [st, ok, method, conf, msg, clicks, trace, cand]; trace lists *)
(* the tiers the request entered ("1A", "1B", "ocr", "fuzzy"), each followed *)
(* by "hit" when it produced a candidate for the target; cand is the vision  *)
(* candidate the request clicked at, with the scaling factor and the size of *)
(* the screenshot it was read from (<<>> when no vision candidate was used). *)

\* input_tool.click / double_click / right_click (x, y, validate=True)
\* -> [ok, clicks]; o.input: the input tool reports success
Input_click(x, y, click_type, o) ==
    [ok |-> o.input,
     clicks |-> IF o.input THEN <<Click("input", 0, <<x, y>>, click_type)>> ELSE <<>>]

\* the final failure (lines 292-298)
Run_failure(st, trace) ==
    [st |-> st, ok |-> FALSE, method |-> "multi_tier", conf |-> 0,
     msg |-> "could_not_locate", clicks |-> <<>>, trace |-> trace, cand |-> <<>>]

\* the click at a vision candidate that takes the OCR center for a screen
\* coordinate: no division by the scaling factor
Run_click_item_unscaled(st, item, rq, ev, off, size, trace) ==
    Bind(Input_click(item.center[1] + off[1], item.center[2] + off[2],
                     rq.click_type, ev.o),
         LAMBDA c :
           [st |-> st, ok |-> c.ok, method |-> "ocr", conf |-> item.confidence,
            msg |-> "", clicks |-> c.clicks, trace |-> trace,
            cand |-> <<[item |-> item, scaling |-> ev.scaling, size |-> size]>>])

\* the click at a vision candidate (lines 167-185 and 270-288)
Run_click_item(st, item, rq, ev, off, size, trace) ==
    Bind(Input_click((item.center[1] \div ev.scaling) + off[1],
                     (item.center[2] \div ev.scaling) + off[2], rq.click_type, ev.o),
         LAMBDA c :
           [st |-> st, ok |-> c.ok, method |-> "ocr", conf |-> item.confidence,
            msg |-> "", clicks |-> c.clicks, trace |-> trace,
            cand |-> <<[item |-> item, scaling |-> ev.scaling, size |-> size]>>])

\* the fuzzy matching fallback with spatial filtering (lines 189-290)
Run_fuzzy(st, rq, ev, off, size, trace) ==
    Bind(BestMatch(SpatialFilter(OCR_extract_all_text(ev.reading), rq.visual_context,
                                 size[1], size[2]),
                   Strip(LowerStr(rq.target)), <<>>, 0 - 999),
         LAMBDA best_match :
           IF best_match # <<>>
           THEN Run_click_item(st, best_match[1], rq, ev, off, size,
                               trace \o <<"fuzzy", "hit">>)
           ELSE Run_failure(st, trace \o <<"fuzzy">>))

\* OCR find (lines 163-187)
Run_ocr(st, rq, ev, off, size, trace) ==
    Bind(OCR_find_text(ev.reading, rq.target), LAMBDA text_matches :
        IF text_matches # <<>>
        THEN Run_click_item(st, text_matches[1], rq, ev, off, size,
                            trace \o <<"ocr", "hit">>)
        ELSE Run_fuzzy(st, rq, ev, off, size, trace \o <<"ocr">>))

\* TIER 2 (lines 138-161): the screenshot is cropped to the application's
\* window when the backend knows its bounds
Run_tier2(st, rq, ev, trace) ==
    IF rq.current_app # <<>> /\ st.available
    THEN Bind(Mac_get_app_window_bounds(st, ev.run, ev.front, rq.current_app),
              LAMBDA wb :
                IF wb.bounds # <<>>
                THEN Run_ocr(wb.st, rq, ev, <<wb.bounds[1], wb.bounds[2]>>,
                             <<wb.bounds[3] * ev.scaling, wb.bounds[4] * ev.scaling>>,
                             trace)
                ELSE Run_ocr(wb.st, rq, ev, <<0, 0>>,
                             <<screen_width * ev.scaling, screen_height * ev.scaling>>,
                             trace))
    ELSE Run_ocr(st, rq, ev, <<0, 0>>,
                 <<screen_width * ev.scaling, screen_height * ev.scaling>>, trace)

\* TIER 1B that goes on to the vision tier when the click at the found
\* element is rejected
Run_tier1B_fallthrough(st, rq, ev, trace) ==
    IF rq.current_app = <<>> THEN Run_tier2(st, rq, ev, trace)
    ELSE Bind(Mac_find_elements(st, ev.run, ev.front, ev.sh, rq.target, rq.current_app),
              LAMBDA fe :
                IF fe.elements # <<>> /\ ev.o.input
                THEN [st |-> fe.st, ok |-> TRUE,
                      method |-> "accessibility_coordinates", conf |-> 100, msg |-> "",
                      clicks |-> Input_click(fe.elements[1].center[1],
                                             fe.elements[1].center[2],
                                             rq.click_type, ev.o).clicks,
                      trace |-> trace \o <<"1B", "hit">>, cand |-> <<>>]
                ELSE Run_tier2(fe.st, rq, ev,
                               trace \o (IF fe.elements # <<>> THEN <<"1B", "hit">>
                                                              ELSE <<"1B">>)))

\* TIER 1B that clicks at the origin of the found element's bounds instead
\* of its center
Run_tier1B_corner(st, rq, ev, trace) ==
    IF rq.current_app = <<>> THEN Run_tier2(st, rq, ev, trace)
    ELSE Bind(Mac_find_elements(st, ev.run, ev.front, ev.sh, rq.target, rq.current_app),
              LAMBDA fe :
                IF fe.elements # <<>>
                THEN Bind(Input_click(fe.elements[1].bounds[1], fe.elements[1].bounds[2],
                                      rq.click_type, ev.o),
                          LAMBDA c :
                            [st |-> fe.st, ok |-> c.ok,
                             method |-> "accessibility_coordinates", conf |-> 100,
                             msg |-> "", clicks |-> c.clicks,
                             trace |-> trace \o <<"1B", "hit">>, cand |-> <<>>])
                ELSE Run_tier2(fe.st, rq, ev, trace \o <<"1B">>))

\* TIER 1B (lines 114-136): the first element find_elements returns is
\* clicked at its center and the click's outcome is the request's result
Run_tier1B(st, rq, ev, trace) ==
    IF rq.current_app = <<>> THEN Run_tier2(st, rq, ev, trace)
    ELSE Bind(Mac_find_elements(st, ev.run, ev.front, ev.sh, rq.target, rq.current_app),
              LAMBDA fe :
                IF fe.elements # <<>>
                THEN Bind(Input_click(fe.elements[1].center[1], fe.elements[1].center[2],
                                      rq.click_type, ev.o),
                          LAMBDA c :
                            [st |-> fe.st, ok |-> c.ok,
                             method |-> "accessibility_coordinates", conf |-> 100,
                             msg |-> "", clicks |-> c.clicks,
                             trace |-> trace \o <<"1B", "hit">>, cand |-> <<>>])
                ELSE Run_tier2(fe.st, rq, ev, trace \o <<"1B">>))

\* TIER 1 (lines 99-136), entered with an available backend; 1A is the
\* backend's own click_element
Run_tier1(st, rq, ev) ==
    IF ~st.available THEN Run_tier2(st, rq, ev, <<>>)
    ELSE IF rq.current_app = <<>> THEN Run_tier1B(st, rq, ev, <<>>)
    ELSE Bind(Mac_click_element(st, ev.run, ev.front, ev.sh, rq.target,
                                rq.current_app, ev.o),
              LAMBDA ce :
                IF ce.ok
                THEN [st |-> ce.st, ok |-> TRUE, method |-> "accessibility_native",
                      conf |-> 100, msg |-> "", clicks |-> ce.clicks,
                      trace |-> <<"1A", "hit">>, cand |-> <<>>]
                ELSE Run_tier1B(ce.st, rq, ev,
                                IF ce.element # <<>> THEN <<"1A", "hit">> ELSE <<"1A">>))

\* any(keyword in target_lower for keyword in empty_space_keywords)
is_empty_space(target) ==
    \E keyword \in empty_space_keywords : Contains(keyword, LowerStr(target))

\* ClickElementTool._run -> [st, ok, method, conf, msg, clicks, trace]
Run(st, rq, ev) ==
    IF is_empty_space(rq.target) /\ rq.current_app # <<>>
    THEN Bind(Mac_get_app_window_bounds(st, ev.run, ev.front, rq.current_app),
              LAMBDA wb :
                IF wb.bounds # <<>>
                THEN Bind(Input_click(wb.bounds[1] + wb.bounds[3] \div 2,
                                      wb.bounds[2] + wb.bounds[4] \div 2, "single", ev.o),
                          LAMBDA c :
                            [st |-> wb.st, ok |-> c.ok, method |-> "semantic",
                             conf |-> 100, msg |-> "", clicks |-> c.clicks,
                             trace |-> <<"empty_space">>, cand |-> <<>>])
                ELSE Run_tier1(wb.st, rq, ev))
    ELSE Run_tier1(st, rq, ev)

-----------------------------------------------------------------------------
(* Linux backend: LinuxAccessibility (linux_accessibility.py).               *)
(* lin = [available, current_app_name, current_app_ref]                      *)
(* An exception of _get_app is the result <<>>; its callers catch it.        *)

\* getRoleName().lower() of a node
LinRole(n) ==
    CASE NodeTab[n].role = "Window" -> "frame"
      [] NodeTab[n].role = "Group" -> "panel"
      [] NodeTab[n].role = "StaticText" -> "label"
      [] NodeTab[n].role = "Button" -> "push button"
      [] NodeTab[n].role = "MenuBar" -> "menu bar"
      [] NodeTab[n].role = "Menu" -> "menu"
      [] NodeTab[n].role = "MenuItem" -> "menu item"
      [] OTHER -> "unknown"

\* the name test of _get_app and set_active_app
Lin_name_matches(app_name, app_title) ==
    \/ Contains(LowerStr(app_name), LowerStr(app_title))
    \/ Contains(LowerStr(app_title), LowerStr(app_name))

\* LinuxAccessibility._get_app: the cached reference when the name is the
\* cached one, else the first application of the desktop whose name matches;
\* <<>> when it raises (no name, or no application found)
Lin_get_app(st, run, app_name) ==
    IF app_name = <<>> THEN <<>>
    ELSE IF /\ st.current_app_name # <<>>
            /\ st.current_app_ref # <<>>
            /\ LowerStr(app_name) = LowerStr(st.current_app_name)
    THEN st.current_app_ref
    ELSE FirstWhere(SetToSeq(run),
                    LAMBDA a : AppName[a] # <<>> /\ Lin_name_matches(app_name, AppName[a]))

\* LinuxAccessibility._get_app_windows: the frames of a live application
Lin_get_app_windows(app, run) ==
    IF app = <<>> THEN <<>>
    ELSE SetToSeq({k \in Nodes : /\ NodeTab[k].parent = 0
                                 /\ NodeTab[k].app = app[1]
                                 /\ app[1] \in run
                                 /\ LinRole(k) \in {"frame", "window", "dialog"}})

\* LinuxAccessibility.set_active_app
Lin_set_active_app(st, run, app_name) ==
    Bind(IF st.current_app_name # <<>>
            /\ LowerStr(st.current_app_name) # LowerStr(app_name)
         THEN [st EXCEPT !.current_app_name = <<>>, !.current_app_ref = <<>>]
         ELSE st,
         LAMBDA s1 :
           Bind(Lin_get_app(s1, run, app_name), LAMBDA app :
             IF app # <<>> /\ AppName[app[1]] # <<>>
                /\ Lin_name_matches(app_name, AppName[app[1]])
             THEN [s1 EXCEPT !.current_app_name = app_name, !.current_app_ref = app]
             ELSE s1))

\* LinuxAccessibility.clear_app_cache
Lin_clear_app_cache(st) ==
    [st EXCEPT !.current_app_name = <<>>, !.current_app_ref = <<>>]

\* LinuxAccessibility.get_frontmost_app_name: the application with an
\* active window
Lin_get_frontmost_app_name(st, run, front) ==
    IF st.available /\ front \in run THEN AppName[front] ELSE <<>>

\* LinuxAccessibility._categorize_element
Lin_categorize_element(role_name, context) ==
    IF context = "menu_bar" \/ role_name = "menu bar" THEN "menu_bar"
    ELSE IF context = "menu_items" \/ role_name \in {"menu", "menu item"}
    THEN "menu_items"
    ELSE IF role_name \in {"push button", "button", "check box", "radio button",
                           "text", "entry", "combo box", "slider", "spin button",
                           "link", "tab", "toggle button", "password text"}
    THEN "interactive"
    ELSE IF role_name \in {"label", "static", "heading", "paragraph", "image", "icon"}
    THEN "static"
    ELSE "structural"

\* LinuxAccessibility._extract_element_info: the element of a node, or None
\* for a node without a name or with geometry that cannot be clicked
Lin_extract_element_info(n, role_name, category) ==
    IF \/ NodeTab[n].label = <<>>
       \/ NodeTab[n].w <= 0 \/ NodeTab[n].h <= 0
       \/ NodeTab[n].x < 0 \/ NodeTab[n].y < 0
       \/ NodeTab[n].x > screen_width \/ NodeTab[n].y > screen_height
       \/ (NodeTab[n].y < 40 /\ category = "menu_bar")
    THEN <<>>
    ELSE <<[identifier |-> NodeTab[n].label, role |-> role_name,
            label |-> NodeTab[n].label, category |-> category,
            center |-> NodeCenter(n),
            bounds |-> <<NodeTab[n].x, NodeTab[n].y, NodeTab[n].w, NodeTab[n].h>>,
            has_actions |-> NodeTab[n].press, enabled |-> NodeTab[n].enabled,
            node |-> n]>>

\* a context that stays menu_bar below a menu bar
Lin_new_context_sticky(role_name, context) ==
    IF role_name = "menu bar" \/ context = "menu_bar" THEN "menu_bar"
    ELSE IF role_name \in {"menu", "menu item"} THEN "menu_items"
    ELSE context

\* the context _collect_all_elements hands to the children of a node
Lin_new_context(role_name, context) ==
    IF role_name = "menu bar" THEN "menu_bar"
    ELSE IF role_name \in {"menu", "menu item"} THEN "menu_items"
    ELSE context

\* LinuxAccessibility._collect_all_elements: the elements collected from the
\* subtree of a node, in traversal order, each with its category
RECURSIVE Lin_collect_all_elements(_, _, _, _), Lin_collect_children(_, _, _, _)
Lin_collect_all_elements(n, depth, context, sh) ==
    IF depth > Lin_max_depth THEN <<>>
    ELSE Lin_extract_element_info(n, LinRole(n),
                                  Lin_categorize_element(LinRole(n), context))
         \o Lin_collect_children(Children(n, sh), depth + 1,
                                 Lin_new_context(LinRole(n), context), sh)
Lin_collect_children(kids, depth, context, sh) ==
    IF kids = <<>> THEN <<>>
    ELSE Lin_collect_all_elements(Head(kids), depth, context, sh)
         \o Lin_collect_children(Tail(kids), depth, context, sh)

\* the elements collected over a list of windows
RECURSIVE Lin_collect_windows(_, _)
Lin_collect_windows(windows, sh) ==
    IF windows = <<>> THEN <<>>
    ELSE Lin_collect_all_elements(Head(windows), 0, "window", sh)
         \o Lin_collect_windows(Tail(windows), sh)

\* the retry loop of get_all_ui_elements (lines 302-335) from attempt on:
\* a later attempt drops the cached application first; _get_app raising ends
\* the call.  -> [st, app, windows, attempts]
RECURSIVE Lin_retry_loop(_, _, _, _)
Lin_retry_loop(st, run, app_name, attempt) ==
    Bind(IF attempt > 0 THEN Lin_clear_app_cache(st) ELSE st, LAMBDA s1 :
      Bind(Lin_get_app(s1, run, app_name), LAMBDA app :
        IF app = <<>>
        THEN [st |-> s1, app |-> <<>>, windows |-> <<>>, attempts |-> attempt + 1]
        ELSE IF Lin_get_app_windows(app, run) # <<>>
                  \/ attempt + 1 >= accessibility_retry_count
        THEN [st |-> s1, app |-> app, windows |-> Lin_get_app_windows(app, run),
              attempts |-> attempt + 1]
        ELSE Lin_retry_loop(s1, run, app_name, attempt + 1)))

\* the frontmost application's elements, collected when the requested
\* application's windows gave none (lines 354-364)
Lin_frontmost_elements(st, run, front, sh, app_name) ==
    Bind(Lin_get_frontmost_app_name(st, run, front), LAMBDA frontmost_name :
      IF frontmost_name # <<>> /\ LowerStr(frontmost_name) # LowerStr(app_name)
      THEN Lin_collect_windows(
               Lin_get_app_windows(Lin_get_app(st, run, frontmost_name), run), sh)
      ELSE <<>>)

\* LinuxAccessibility.get_all_ui_elements -> [st, elements, attempts, gave_up]:
\* the elements of all categories, each carrying its category; the number of
\* attempts of the retry loop; gave_up: "no_app", "no_windows" or ""
Lin_get_all_ui_elements(st, run, front, sh, app_name) ==
    IF ~st.available
    THEN [st |-> st, elements |-> <<>>, attempts |-> 0, gave_up |-> "unavailable"]
    ELSE Bind(Lin_retry_loop(st, run, app_name, 0), LAMBDA r :
           IF r.app = <<>>
           THEN [st |-> r.st, elements |-> <<>>, attempts |-> r.attempts,
                 gave_up |-> "no_app"]
           ELSE Bind(Lin_collect_windows(r.windows, sh), LAMBDA found :
                  IF found = <<>> /\ r.windows # <<>>
                  THEN [st |-> r.st,
                        elements |-> Lin_frontmost_elements(r.st, run, front, sh, app_name),
                        attempts |-> r.attempts, gave_up |-> ""]
                  ELSE [st |-> r.st, elements |-> found, attempts |-> r.attempts,
                        gave_up |-> IF r.windows = <<>> THEN "no_windows" ELSE ""]))

-----------------------------------------------------------------------------
(* The last operation and what it returned *)

NoCall ==
    [op |-> "init", app |-> <<>>, target |-> <<>>, id |-> <<>>, status |-> "",
     ok |-> FALSE, msg |-> "", clicks |-> <<>>, trace |-> <<>>, elems |-> <<>>,
     method |-> "", conf |-> 0, hint |-> <<>>, cand |-> <<>>]

-----------------------------------------------------------------------------
(* Initial state: the applications running with their full trees, and the   *)
(* freshly constructed backends.  _check_availability makes a backend       *)
(* unavailable on a foreign platform, so each session works with the        *)
(* backend of its platform and the other two stay unavailable.              *)

WinOff ==
    [available |-> FALSE, epoch |-> 0, reg |-> EmptyMap, apps |-> EmptyMap,
     elems |-> EmptyMap]

MacOff ==
    [available |-> FALSE, apps |-> EmptyMap, elems |-> EmptyMap,
     registry |-> EmptyMap, recent |-> FALSE, gen |-> 0]

LinOff == [available |-> FALSE, current_app_name |-> <<>>, current_app_ref |-> <<>>]

\* the task loop of main before the first task: it waits for input, the
\* class flag ComputerUseCrew._cancellation_requested and esc_pressed are
\* False and no crew was kicked off
CrewIdle ==
    [main |-> "input", cancellation_requested |-> FALSE, esc_pressed |-> FALSE,
     workers |-> <<>>]

\* a GUIAgent outside execute_task: the locals of the loop as line 63-67
\* initialises them; result is "idle", "running" or the kind of the returned
\* ActionResult, history the step results the loop has consumed
AgentIdle ==
    [step |-> 0, task_complete |-> FALSE, last_coordinates |-> <<>>,
     repeated_clicks |-> 0, result |-> "idle", history |-> <<>>]

\* a ScreenshotTool that took no window capture; os_type is platform.system()
ShotOff == [scaling_factor |-> 1, os_type |-> "", active_window_bounds |-> <<>>]

WinInit == win \in {WinOff, [WinOff EXCEPT !.available = TRUE]}

MacInit == mac \in {MacOff, [MacOff EXCEPT !.available = TRUE]}

LinInit == lin \in {LinOff, [LinOff EXCEPT !.available = TRUE]}

-----------------------------------------------------------------------------
(* The environment: applications start, stop, come to the front and change  *)
(* their trees; time passes                                                 *)

Launch ==
    \E a \in Apps \ running :
        /\ running' = running \cup {a}
        /\ call' = [NoCall EXCEPT !.op = "launch"]
        /\ UNCHANGED <<frontmost, shown, win, mac, lin, shot, crew, agent>>

Quit ==
    \E a \in running :
        /\ running' = running \ {a}
        /\ frontmost' = IF frontmost = a THEN 0 ELSE frontmost
        /\ call' = [NoCall EXCEPT !.op = "quit"]
        /\ UNCHANGED <<shown, win, mac, lin, shot, crew, agent>>

Focus ==
    \E a \in running \ {frontmost} :
        /\ frontmost' = a
        /\ call' = [NoCall EXCEPT !.op = "focus"]
        /\ UNCHANGED <<running, shown, win, mac, lin, shot, crew, agent>>

UIMutate ==
    \E n \in Dynamic :
        /\ shown' = IF n \in shown THEN shown \ {n} ELSE shown \cup {n}
        /\ call' = [NoCall EXCEPT !.op = "ui_mutate"]
        /\ UNCHANGED <<running, frontmost, win, mac, lin, shot, crew, agent>>

\* two seconds pass without an interaction
Tick ==
    /\ mac.recent
    /\ mac' = [mac EXCEPT !.recent = FALSE]
    /\ call' = [NoCall EXCEPT !.op = "tick"]
    /\ UNCHANGED <<running, frontmost, shown, win, lin, shot, crew, agent>>

-----------------------------------------------------------------------------
(* Operations of the Windows backend *)

\* every id the Windows registry can issue in this model
AllIds == {<<LowerStr(AppName[NodeTab[n].app]), n>> : n \in Nodes}

WinGetElements ==
    \E nm \in WinReqNames, io \in BOOLEAN, uc \in BOOLEAN :
        \E r \in {Win_get_elements(win, running, shown, nm, io, uc)} :
        /\ win' = r.st
        /\ call' = [NoCall EXCEPT !.op = "get_elements", !.app = nm,
                                  !.ok = TRUE, !.elems = r.elements,
                                  !.trace = IF r.traversed THEN <<"traverse">> ELSE <<>>]
        /\ UNCHANGED <<running, frontmost, shown, mac, lin, shot, crew, agent>>

WinClickById ==
    \E id \in AllIds, ct \in ClickTypes, o \in ClickOutcomes :
        \E r \in {Win_click_by_id(win, id, ct, o.nativeOk, o.coordOk)} :
        /\ r.st.epoch <= MaxEpoch
        /\ win' = r.st
        /\ call' = [NoCall EXCEPT !.op = "click_by_id", !.id = id,
                                  !.target = <<ct>>,
                                  !.status = r.status, !.ok = r.ok, !.msg = r.msg,
                                  !.clicks = r.clicks, !.trace = r.trace]
        /\ UNCHANGED <<running, frontmost, shown, mac, lin, shot, crew, agent>>

WinInvalidateCache ==
    \E nm \in WinReqNames \cup {<<>>} :
        /\ win.epoch < MaxEpoch
        /\ win' = Win_invalidate_cache(win, nm)
        /\ call' = [NoCall EXCEPT !.op = "invalidate_cache", !.app = nm, !.ok = TRUE]
        /\ UNCHANGED <<running, frontmost, shown, mac, lin, shot, crew, agent>>

WinClickElement ==
    \E nm \in WinReqNames, label \in {sOK, s7}, o \in ClickOutcomes :
        \E r \in {Win_click_element(win, running, shown, label, nm, o.nativeOk, o.coordOk)} :
        /\ r.st.epoch <= MaxEpoch
        /\ win' = r.st
        /\ call' = [NoCall EXCEPT !.op = "click_element", !.app = nm,
                                  !.target = label, !.status = r.status,
                                  !.ok = r.ok, !.clicks = r.clicks, !.trace = r.trace,
                                  !.elems = r.element]
        /\ UNCHANGED <<running, frontmost, shown, mac, lin, shot, crew, agent>>

\* click_element_or_parent with the default max_depth of 5, on a leaf of the
\* tree or on a dictionary without a native reference
WinClickElementOrParent ==
    \E node \in {<<>>, <<3>>, <<4>>}, accept \in {{}, {1}, Nodes} :
        \E r \in {Win_click_element_or_parent(win, node, 5, accept)} :
        /\ r.st.epoch <= MaxEpoch
        /\ win' = r.st
        /\ call' = [NoCall EXCEPT !.op = "click_element_or_parent", !.id = node,
                                  !.ok = r.ok, !.msg = r.msg, !.conf = r.depth,
                                  !.clicks = r.clicks]
        /\ UNCHANGED <<running, frontmost, shown, mac, lin, shot, crew, agent>>

\* the Windows session: Calc runs, Notes may or may not, and both stay as they
\* are; only Calc's tree changes
WinEnvInit ==
    /\ running \in {{1}, Apps}
    /\ frontmost = 1
    /\ shown = Nodes

InitWin == WinEnvInit /\ WinInit /\ mac = MacOff /\ lin = LinOff /\ shot = ShotOff /\ crew = CrewIdle /\ agent = AgentIdle /\ call = NoCall

NextWin ==
    \/ UIMutate
    \/ WinGetElements
    \/ WinClickById
    \/ WinInvalidateCache
    \/ WinClickElement
    \/ WinClickElementOrParent

SpecWin == InitWin /\ [][NextWin]_vars

-----------------------------------------------------------------------------
(* Operations of the macOS backend and click requests over it *)

\* application names a macOS caller asks for
MacReqNames == {sCalc, sNotes}

\* what the platform does with the click primitives of one call
\*   press: Press() works; pyauto: pyautogui.click works; input: the input
\*   tool reports success
Outcomes ==
    {[press |-> TRUE,  pyauto |-> TRUE,  input |-> TRUE],
     [press |-> TRUE,  pyauto |-> FALSE, input |-> TRUE],
     [press |-> FALSE, pyauto |-> TRUE,  input |-> TRUE],
     [press |-> FALSE, pyauto |-> FALSE, input |-> TRUE],
     [press |-> FALSE, pyauto |-> FALSE, input |-> FALSE]}

\* the scaling factors of the display (1.0, and 2.0 on HiDPI)
Scalings == {1, 2}

\* the click requests of the session
Requests ==
    {[target |-> s7, visual_context |-> <<>>, click_type |-> "single", current_app |-> sCalc],
     [target |-> sOK, visual_context |-> <<>>, click_type |-> "double", current_app |-> sCalc],
     [target |-> s7, visual_context |-> <<>>, click_type |-> "single", current_app |-> sNotes],
     [target |-> sOK, visual_context |-> sBottom, click_type |-> "right", current_app |-> <<>>],
     [target |-> sBackground, visual_context |-> <<>>, click_type |-> "single", current_app |-> sCalc],
     [target |-> sBackground, visual_context |-> <<>>, click_type |-> "single", current_app |-> <<>>]}

MacGetElements ==
    \E nm \in MacReqNames, io \in BOOLEAN, uc \in BOOLEAN :
        \E r \in {Mac_get_elements(mac, running, frontmost, shown, nm, io, uc)} :
        /\ r.st.gen <= MaxGen
        /\ mac' = r.st
        /\ call' = [NoCall EXCEPT !.op = "get_elements", !.app = nm,
                                  !.ok = TRUE, !.elems = r.elements,
                                  !.trace = IF r.traversed THEN <<"traverse">> ELSE <<>>]
        /\ UNCHANGED <<running, frontmost, shown, win, lin, shot, crew, agent>>

MacClickById ==
    \E id \in DOMAIN mac.registry \cup {<<0, 4>>}, o \in Outcomes :
        \E r \in {Mac_click_by_id(mac, id, o)} :
        /\ mac' = r.st
        /\ call' = [NoCall EXCEPT !.op = "click_by_id", !.id = id,
                                  !.status = IF id \in DOMAIN mac.registry
                                             THEN mac.registry[id].role ELSE "",
                                  !.ok = r.ok, !.msg = r.msg,
                                  !.clicks = r.clicks, !.trace = r.trace]
        /\ UNCHANGED <<running, frontmost, shown, win, lin, shot, crew, agent>>

MacInvalidateCache ==
    /\ mac' = Mac_invalidate_cache(mac)
    /\ call' = [NoCall EXCEPT !.op = "invalidate_cache", !.ok = TRUE]
    /\ UNCHANGED <<running, frontmost, shown, win, lin, shot, crew, agent>>

ClickElement ==
    \E rq \in Requests, reading \in OcrReadings, scaling \in Scalings, o \in Outcomes :
        \E r \in {Run(mac, rq, [reading |-> reading, scaling |-> scaling, o |-> o,
                               run |-> running, front |-> frontmost, sh |-> shown])} :
        /\ r.st.gen <= MaxGen
        /\ mac' = r.st
        /\ call' = [NoCall EXCEPT !.op = "click_request", !.app = rq.current_app,
                                  !.target = rq.target, !.status = rq.click_type,
                                  !.ok = r.ok, !.msg = r.msg,
                                  !.method = r.method, !.conf = r.conf,
                                  !.clicks = r.clicks, !.trace = r.trace,
                                  !.hint = rq.visual_context, !.cand = r.cand]
        /\ UNCHANGED <<running, frontmost, shown, win, lin, shot, crew, agent>>

\* the macOS session: Calc runs in front, Notes does not run
MacEnvInit ==
    /\ running = {1}
    /\ frontmost = 1
    /\ shown = Nodes

InitMac == MacEnvInit /\ MacInit /\ win = WinOff /\ lin = LinOff /\ shot = ShotOff /\ crew = CrewIdle /\ agent = AgentIdle /\ call = NoCall

NextMac ==
    \/ Tick
    \/ MacGetElements
    \/ MacClickById
    \/ MacInvalidateCache
    \/ ClickElement

SpecMac == InitMac /\ [][NextMac]_vars

-----------------------------------------------------------------------------
(* A session of application lookups on macOS: applications come and go      *)
(* while the backend is asked for their handles                             *)

\* the names the macOS lookups are exercised with
MacAppNames == {sCalc, scalc, sNotes}

MacGetApp ==
    \E nm \in MacAppNames :
      \E r \in {Mac_get_app(mac, running, frontmost, nm)} :
        /\ mac' = r.st
        /\ call' = [NoCall EXCEPT !.op = "get_app", !.app = nm,
                                  !.ok = r.app # <<>>, !.id = r.app,
                                  !.trace = IF /\ mac.available
                                               /\ LowerStr(Strip(nm)) \in DOMAIN mac.apps
                                            THEN <<"cache">> ELSE <<"search">>]
        /\ UNCHANGED <<running, frontmost, shown, win, lin, shot, crew, agent>>

MacSetActiveApp ==
    \E nm \in MacAppNames :
        /\ mac' = Mac_set_active_app(mac, running, frontmost, nm)
        /\ call' = [NoCall EXCEPT !.op = "set_active_app", !.app = nm]
        /\ UNCHANGED <<running, frontmost, shown, win, lin, shot, crew, agent>>

MacClearAppCache ==
    /\ mac' = Mac_clear_cache(mac)
    /\ call' = [NoCall EXCEPT !.op = "clear_app_cache"]
    /\ UNCHANGED <<running, frontmost, shown, win, lin, shot, crew, agent>>

InitMacApps ==
    /\ running = Apps /\ frontmost = 1 /\ shown = Nodes
    /\ MacInit /\ win = WinOff /\ lin = LinOff /\ shot = ShotOff /\ crew = CrewIdle /\ agent = AgentIdle /\ call = NoCall

NextMacApps ==
    \/ Launch
    \/ Quit
    \/ Focus
    \/ MacGetApp
    \/ MacSetActiveApp
    \/ MacClearAppCache

SpecMacApps == InitMacApps /\ [][NextMacApps]_vars

-----------------------------------------------------------------------------
(* ScreenshotTool: captures of the active window and the conversion of      *)
(* window coordinates to screen coordinates                                 *)

sDock == <<68, 111, 99, 107>>

\* the metadata of a capture that fell back to the full screen
FullScreen == [x |-> 0, y |-> 0, width |-> 0, height |-> 0, type |-> "fullscreen"]

\* the first window of the on-screen list on layer 0 whose owner contains
\* app_name (any owner when no name is given): <<>> or <<window>>
RECURSIVE Shot_target_window(_, _)
Shot_target_window(window_list, app_name) ==
    IF window_list = <<>> THEN <<>>
    ELSE IF /\ Head(window_list).layer = 0
            /\ \/ app_name = <<>>
               \/ Contains(LowerStr(app_name), LowerStr(Head(window_list).owner))
    THEN <<Head(window_list)>>
    ELSE Shot_target_window(Tail(window_list), app_name)

\* ScreenshotTool._capture_active_window_macos -> [st, bounds, raised].
\* capture_fails: the screenshot of the window's region raises, after the
\* bounds were stored.
Shot_capture_active_window_macos(st, window_list, app_name, capture_fails) ==
    Bind(Shot_target_window(window_list, app_name), LAMBDA t :
        IF t = <<>> THEN [st |-> st, bounds |-> FullScreen, raised |-> FALSE]
        ELSE IF \/ t[1].x < 0 \/ t[1].y < 0
                \/ t[1].x + t[1].w > screen_width
                \/ t[1].y + t[1].h > screen_height
        THEN [st |-> st, bounds |-> FullScreen, raised |-> FALSE]
        ELSE [st |-> [st EXCEPT !.active_window_bounds =
                        <<[x |-> t[1].x, y |-> t[1].y,
                           width |-> t[1].w, height |-> t[1].h]>>],
              bounds |-> [x |-> t[1].x, y |-> t[1].y, width |-> t[1].w,
                          height |-> t[1].h, type |-> "window"],
              raised |-> capture_fails])

\* what capture_active_window leaves behind when the exception reaches its
\* caller: no image and no metadata
Raised == [x |-> 0, y |-> 0, width |-> 0, height |-> 0, type |-> "raised"]

\* ScreenshotTool.capture_active_window -> [st, bounds].
\* fails: "" nothing raises; "quartz": the window list cannot be read;
\* "capture": the screenshot of the window's region raises; "screen":
\* pyautogui.screenshot raises for the region and for the full screen, so
\* the self.capture() of the except handler raises too.
Shot_capture_active_window(st, window_list, app_name, fails) ==
    IF st.os_type = "darwin"
    THEN IF fails = "quartz" THEN [st |-> st, bounds |-> FullScreen]
         ELSE Bind(Shot_capture_active_window_macos(st, window_list, app_name,
                                                    fails \in {"capture", "screen"}),
                   LAMBDA r : [st |-> r.st,
                               bounds |-> IF fails = "screen" THEN Raised
                                          ELSE IF r.raised THEN FullScreen
                                          ELSE r.bounds])
    ELSE [st |-> st, bounds |-> IF fails = "screen" THEN Raised ELSE FullScreen]

\* ScreenshotTool.window_to_screen_coords
Shot_window_to_screen_coords(st, x, y) ==
    IF st.active_window_bounds # <<>>
    THEN <<st.active_window_bounds[1].x + x, st.active_window_bounds[1].y + y>>
    ELSE <<x, y>>

\* the on-screen window lists of the session, front to back: the Dock is
\* not on layer 0, one Notes window hangs over the left screen edge and
\* one Calc window over the right and bottom edges
WindowLists ==
    {<<>>,
     <<[owner |-> sDock, layer |-> 20, x |-> 0, y |-> 1000, w |-> 1920, h |-> 80],
       [owner |-> sCalc, layer |-> 0, x |-> 100, y |-> 100, w |-> 400, h |-> 300],
       [owner |-> sNotes, layer |-> 0, x |-> 300, y |-> 200, w |-> 500, h |-> 400]>>,
     <<[owner |-> sNotes, layer |-> 0, x |-> 0 - 50, y |-> 100, w |-> 400, h |-> 300],
       [owner |-> sCalc, layer |-> 0, x |-> 0, y |-> 0, w |-> 1920, h |-> 1080]>>,
     <<[owner |-> sNotes, layer |-> 0, x |-> 40, y |-> 60, w |-> 500, h |-> 400],
       [owner |-> sCalc, layer |-> 0, x |-> 200, y |-> 150, w |-> 400, h |-> 300]>>,
     <<[owner |-> sCalc, layer |-> 0, x |-> 1600, y |-> 900, w |-> 400, h |-> 300]>>}

\* the application names captures are asked for (None included)
ShotAppNames == {<<>>, sCalc, scalc, sNotes}

\* the window coordinates that are converted
ShotPoints == {<<0, 0>>, <<10, 20>>, <<120, 340>>}

CaptureActiveWindow ==
    \E wl \in WindowLists, nm \in ShotAppNames,
       fails \in {"", "quartz", "capture", "screen"} :
      \E r \in {Shot_capture_active_window(shot, wl, nm, fails)} :
        /\ shot' = r.st
        /\ call' = [NoCall EXCEPT !.op = "capture_active_window", !.app = nm,
                                  !.status = r.bounds.type,
                                  !.id = <<r.bounds.x, r.bounds.y,
                                           r.bounds.width, r.bounds.height>>,
                                  !.elems = wl, !.msg = fails,
                                  !.ok = r.bounds.type = "window"]
        /\ UNCHANGED <<running, frontmost, shown, win, mac, lin, crew, agent>>

WindowToScreenCoords ==
    \E p \in ShotPoints :
        /\ call' = [NoCall EXCEPT !.op = "window_to_screen_coords", !.id = p,
                                  !.target = Shot_window_to_screen_coords(shot, p[1], p[2])]
        /\ UNCHANGED <<running, frontmost, shown, win, mac, lin, shot, crew, agent>>

InitShot ==
    /\ running = Apps /\ frontmost = 1 /\ shown = Nodes
    /\ win = WinOff /\ mac = MacOff /\ lin = LinOff /\ crew = CrewIdle /\ agent = AgentIdle /\ call = NoCall
    /\ shot \in {[ShotOff EXCEPT !.os_type = t, !.scaling_factor = f] :
                    t \in {"darwin", "windows", "linux"}, f \in Scalings}

NextShot ==
    \/ CaptureActiveWindow
    \/ WindowToScreenCoords

SpecShot == InitShot /\ [][NextShot]_vars

-----------------------------------------------------------------------------
(* Clicks on an element or its ancestors: every element, every set of nodes *)
(* that accept a click and several depth limits                             *)

\* the values of max_depth the walk is called with (5 is the default)
ParentDepths == {0, 1, 2, 5}

ClickElementOrParent ==
    \E node \in {<<>>} \cup {<<n>> : n \in Nodes}, accept \in SUBSET Nodes,
       max_depth \in ParentDepths :
        \E r \in {Win_click_element_or_parent(win, node, max_depth, accept)} :
        /\ r.st.epoch <= MaxEpoch
        /\ win' = r.st
        /\ call' = [NoCall EXCEPT !.op = "click_element_or_parent", !.id = node,
                                  !.target = SetToSeq(accept), !.hint = <<max_depth>>,
                                  !.ok = r.ok, !.msg = r.msg, !.conf = r.depth,
                                  !.clicks = r.clicks]
        /\ UNCHANGED <<running, frontmost, shown, mac, lin, shot, crew, agent>>

InitParents ==
    /\ running = Apps /\ frontmost = 1 /\ shown = Nodes
    /\ WinInit /\ mac = MacOff /\ lin = LinOff /\ shot = ShotOff /\ crew = CrewIdle /\ agent = AgentIdle /\ call = NoCall

NextParents ==
    \/ ClickElementOrParent
    \/ WinInvalidateCache

SpecParents == InitParents /\ [][NextParents]_vars

-----------------------------------------------------------------------------
(* The task loop of main and the executor threads that run crew.kickoff     *)

\* tasks the user enters in one session
MaxTasks == 2

\* click or input actions one crew dispatches
StepsPerTask == 2

\* main, lines 137-152: a task was entered; esc_pressed and the cancellation
\* flag are reset, execute_task plans and hands crew.kickoff to the executor
\* (_run_crew, line 419), and main starts polling
SubmitTask ==
    /\ crew.main = "input"
    /\ Len(crew.workers) < MaxTasks
    /\ crew' = [crew EXCEPT !.main = "polling", !.esc_pressed = FALSE,
                            !.cancellation_requested = FALSE,
                            !.workers = Append(@, [state |-> "queued",
                                                   left |-> StepsPerTask,
                                                   cancelled |-> FALSE])]
    /\ call' = [NoCall EXCEPT !.op = "submit_task", !.conf = Len(crew.workers) + 1]
    /\ UNCHANGED <<running, frontmost, shown, win, mac, lin, shot, agent>>

\* on_key_press (lines 113-121), in the listener thread
PressEsc ==
    /\ crew.main = "polling"
    /\ ~crew.esc_pressed
    /\ crew' = [crew EXCEPT !.esc_pressed = TRUE]
    /\ call' = [NoCall EXCEPT !.op = "press_esc", !.conf = Len(crew.workers)]
    /\ UNCHANGED <<running, frontmost, shown, win, mac, lin, shot, agent>>

\* one round of 'while not task_future.done()' (lines 153-186): the task
\* finished, or ESC was pressed: request_cancellation() and
\* task_future.cancel(), which stops a kickoff still queued in the executor
\* and cannot stop one whose thread runs
PollTask ==
    /\ crew.main = "polling"
    /\ \/ /\ crew.workers[Len(crew.workers)].state = "done"
          /\ crew' = [crew EXCEPT !.main = "input"]
          /\ call' = [NoCall EXCEPT !.op = "task_done", !.conf = Len(crew.workers)]
       \/ /\ crew.workers[Len(crew.workers)].state # "done"
          /\ crew.esc_pressed
          /\ crew' = [crew EXCEPT
                        !.main = "input", !.cancellation_requested = TRUE,
                        !.workers[Len(crew.workers)] =
                            [@ EXCEPT !.cancelled = TRUE,
                                      !.state = IF @ = "queued" THEN "never_run" ELSE @]]
          /\ call' = [NoCall EXCEPT !.op = "task_cancelled", !.conf = Len(crew.workers)]
    /\ UNCHANGED <<running, frontmost, shown, win, mac, lin, shot, agent>>

\* the executor thread starts crew.kickoff
WorkerStart ==
    \E t \in 1..Len(crew.workers) :
        /\ crew.workers[t].state = "queued"
        /\ crew' = [crew EXCEPT !.workers[t].state = "running"]
        /\ call' = [NoCall EXCEPT !.op = "worker_start", !.conf = t]
        /\ UNCHANGED <<running, frontmost, shown, win, mac, lin, shot, agent>>

\* a tool of the running crew dispatches a click or input action; no tool
\* consults is_cancelled()
WorkerClick ==
    \E t \in 1..Len(crew.workers) :
        /\ crew.workers[t].state = "running"
        /\ crew.workers[t].left > 0
        /\ crew' = [crew EXCEPT !.workers[t].left = @ - 1]
        /\ call' = [NoCall EXCEPT !.op = "dispatch_click", !.conf = t, !.ok = TRUE]
        /\ UNCHANGED <<running, frontmost, shown, win, mac, lin, shot, agent>>

\* crew.kickoff returns
WorkerDone ==
    \E t \in 1..Len(crew.workers) :
        /\ crew.workers[t].state = "running"
        /\ crew.workers[t].left = 0
        /\ crew' = [crew EXCEPT !.workers[t].state = "done"]
        /\ call' = [NoCall EXCEPT !.op = "worker_done", !.conf = t]
        /\ UNCHANGED <<running, frontmost, shown, win, mac, lin, shot, agent>>

InitCrew ==
    /\ running = Apps /\ frontmost = 1 /\ shown = Nodes
    /\ win = WinOff /\ mac = MacOff /\ lin = LinOff /\ shot = ShotOff
    /\ crew = CrewIdle /\ agent = AgentIdle /\ call = NoCall

NextCrew ==
    \/ SubmitTask
    \/ PressEsc
    \/ PollTask
    \/ WorkerStart
    \/ WorkerClick
    \/ WorkerDone

SpecCrew == InitCrew /\ [][NextCrew]_vars

-----------------------------------------------------------------------------
(* The screenshot-driven loop of GUIAgent.execute_task: each round takes a   *)
(* screenshot, asks the model for an action and executes it                  *)

\* GUIAgent.max_steps
max_steps == 15

\* rounds of the loop followed in one execute_task
MaxAgentSteps == 5

\* what _execute_action returns: a failure, a success without coordinates, a
\* success with the coordinates of the click
StepResults ==
    {[success |-> FALSE, coordinates |-> <<>>],
     [success |-> TRUE, coordinates |-> <<>>],
     [success |-> TRUE, coordinates |-> <<120, 340>>],
     [success |-> TRUE, coordinates |-> <<10, 20>>]}

\* the bookkeeping of a successful step with coordinates (lines 119-137):
\* the returned "stuck" leaves the loop before last_coordinates is assigned
Agent_track_click(a, current_coords) ==
    IF a.last_coordinates = current_coords
    THEN IF a.repeated_clicks + 1 >= 3
         THEN [a EXCEPT !.repeated_clicks = @ + 1, !.result = "stuck"]
         ELSE [a EXCEPT !.repeated_clicks = @ + 1]
    ELSE [a EXCEPT !.repeated_clicks = 0, !.last_coordinates = current_coords]

\* the end of a round and the loop test (lines 139-161): task_complete is
\* the action's is_complete
Agent_loop_test(a, is_complete) ==
    IF a.result # "running" THEN a
    ELSE [a EXCEPT !.task_complete = is_complete,
                   !.result = IF is_complete THEN "completed"
                              ELSE IF a.step >= max_steps THEN "exceeded"
                              ELSE "running"]

\* one round of 'while step < self.max_steps and not task_complete'
\* (lines 72-142) with the step result and the is_complete of its action
Agent_round(a, step_result, is_complete) ==
    Bind([a EXCEPT !.step = @ + 1, !.history = Append(@, step_result)], LAMBDA a1 :
      IF ~step_result.success
      THEN IF a1.step >= 3
           THEN [a1 EXCEPT !.result = "failed"]
           ELSE Agent_loop_test(a1, is_complete)
      ELSE IF step_result.coordinates # <<>>
           THEN Agent_loop_test(Agent_track_click(a1, step_result.coordinates),
                                is_complete)
           ELSE Agent_loop_test(a1, is_complete))

\* execute_task is called (lines 63-68)
ExecuteTask ==
    /\ agent.result # "running"
    /\ agent' = [AgentIdle EXCEPT !.result = "running"]
    /\ call' = [NoCall EXCEPT !.op = "execute_task"]
    /\ UNCHANGED <<running, frontmost, shown, win, mac, lin, shot, crew>>

\* one round of the loop, and the return that ends it
AgentStep ==
    /\ agent.result = "running"
    /\ agent.step < MaxAgentSteps
    /\ \E step_result \in StepResults, is_complete \in BOOLEAN :
          /\ agent' = Agent_round(agent, step_result, is_complete)
          /\ call' = [NoCall EXCEPT !.op = "agent_step", !.status = agent'.result,
                                    !.conf = agent'.step, !.ok = step_result.success]
    /\ UNCHANGED <<running, frontmost, shown, win, mac, lin, shot, crew>>

InitAgent ==
    /\ running = Apps /\ frontmost = 1 /\ shown = Nodes
    /\ win = WinOff /\ mac = MacOff /\ lin = LinOff /\ shot = ShotOff
    /\ crew = CrewIdle /\ agent = AgentIdle /\ call = NoCall

NextAgent ==
    \/ ExecuteTask
    \/ AgentStep

SpecAgent == InitAgent /\ [][NextAgent]_vars

-----------------------------------------------------------------------------
(* A session on Linux: applications come and go while the backend is asked   *)
(* for the elements of a named application                                   *)

\* the names the Linux operations are exercised with
LinReqNames == {sCalc, scalc, sNotes}

\* the categories of get_all_ui_elements, in the order of its dictionary
LinCategories == <<"interactive", "menu_bar", "menu_items", "static", "structural">>

\* the values of the categorized dictionary, one after the other
RECURSIVE Lin_flatten(_, _)
Lin_flatten(found, cats) ==
    IF cats = <<>> THEN <<>>
    ELSE SelectSeq(found, LAMBDA e : e.category = Head(cats))
         \o Lin_flatten(found, Tail(cats))

LinSetActiveApp ==
    \E nm \in LinReqNames :
        /\ lin' = Lin_set_active_app(lin, running, nm)
        /\ call' = [NoCall EXCEPT !.op = "set_active_app", !.app = nm]
        /\ UNCHANGED <<running, frontmost, shown, win, mac, shot, crew, agent>>

LinClearAppCache ==
    /\ lin' = Lin_clear_app_cache(lin)
    /\ call' = [NoCall EXCEPT !.op = "clear_app_cache"]
    /\ UNCHANGED <<running, frontmost, shown, win, mac, shot, crew, agent>>

LinGetAllUIElements ==
    \E nm \in LinReqNames \cup {<<>>} :
      \E r \in {Lin_get_all_ui_elements(lin, running, frontmost, shown, nm)} :
        /\ lin' = r.st
        /\ call' = [NoCall EXCEPT !.op = "get_all_ui_elements", !.app = nm,
                                  !.elems = Lin_flatten(r.elements, LinCategories),
                                  !.conf = r.attempts, !.status = r.gave_up,
                                  !.ok = r.elements # <<>>]
        /\ UNCHANGED <<running, frontmost, shown, win, mac, shot, crew, agent>>

LinEnvInit == running = Apps /\ frontmost = 1 /\ shown = Nodes

InitLinux == LinEnvInit /\ LinInit /\ win = WinOff /\ mac = MacOff /\ shot = ShotOff /\ crew = CrewIdle /\ agent = AgentIdle /\ call = NoCall

NextLinux ==
    \/ Launch
    \/ Quit
    \/ Focus
    \/ UIMutate
    \/ LinSetActiveApp
    \/ LinClearAppCache
    \/ LinGetAllUIElements

SpecLinux == InitLinux /\ [][NextLinux]_vars

-----------------------------------------------------------------------------
(* A session on Linux with Calc showing its menu: menus open and close while *)
(* the backend is asked for the categorized elements                         *)

\* the application adds a node of its menu to the tree or removes it
MenuMutate ==
    \E n \in MenuNodes :
        /\ shown' = IF n \in shown THEN shown \ {n} ELSE shown \cup {n}
        /\ call' = [NoCall EXCEPT !.op = "menu_mutate"]
        /\ UNCHANGED <<running, frontmost, win, mac, lin, shot, crew, agent>>

InitMenus ==
    /\ running = Apps /\ frontmost = 1 /\ shown = Nodes \cup MenuNodes
    /\ LinInit /\ win = WinOff /\ mac = MacOff /\ shot = ShotOff
    /\ crew = CrewIdle /\ agent = AgentIdle /\ call = NoCall

NextMenus ==
    \/ MenuMutate
    \/ Focus
    \/ LinGetAllUIElements

SpecMenus == InitMenus /\ [][NextMenus]_vars

-----------------------------------------------------------------------------
(* The fuzzy scoring applied to pairs of OCR items (lines 246-268)           *)

sAback == <<97, 98, 97, 99, 107>>
sBac   == <<98, 97, 99>>

\* the texts the OCR reads, against the target "back": an exact match, a
\* prefix match, a substring match, a reverse-prefix match and no match
ScoreTexts == {sBack, sBackground, sAback, sBac, sOK}

\* OCR confidences, in percent
ScoreConfs == {0, 50, 100}

\* the scoring loop over two OCR items: their scores and the best match
ScoreCandidates ==
    \E t1 \in ScoreTexts, t2 \in ScoreTexts, c1 \in ScoreConfs, c2 \in ScoreConfs :
        /\ call' = [NoCall EXCEPT
                      !.op = "score", !.target = sBack,
                      !.elems = <<[text |-> t1, confidence |-> c1,
                                   score |-> Score(Strip(LowerStr(t1)),
                                                   Strip(LowerStr(sBack)), c1)],
                                  [text |-> t2, confidence |-> c2,
                                   score |-> Score(Strip(LowerStr(t2)),
                                                   Strip(LowerStr(sBack)), c2)]>>,
                      !.cand = BestMatch(<<[text |-> t1, confidence |-> c1],
                                           [text |-> t2, confidence |-> c2]>>,
                                         Strip(LowerStr(sBack)), <<>>, 0 - 999)]
        /\ UNCHANGED <<running, frontmost, shown, win, mac, lin, shot, crew, agent>>

InitScore ==
    /\ running = {} /\ frontmost = 0 /\ shown = Nodes
    /\ win = WinOff /\ mac = MacOff /\ lin = LinOff /\ shot = ShotOff /\ crew = CrewIdle /\ agent = AgentIdle /\ call = NoCall

NextScore == ScoreCandidates

SpecScore == InitScore /\ [][NextScore]_vars

-----------------------------------------------------------------------------
(* The tree traversals of the three backends over trees that change and may  *)
(* be cyclic                                                                 *)

\* a node appears in or disappears from the tree, or a cyclic node starts or
\* stops listing itself among its children
TreeMutate ==
    \E n \in Nodes \cup {0 - k : k \in Cyclic} :
        /\ shown' = IF n \in shown THEN shown \ {n} ELSE shown \cup {n}
        /\ call' = [NoCall EXCEPT !.op = "tree_mutate"]
        /\ UNCHANGED <<running, frontmost, win, mac, lin, shot, crew, agent>>

\* the nodes of a sequence of collected Linux elements
RECURSIVE NodesOf(_)
NodesOf(elements) ==
    IF elements = <<>> THEN <<>> ELSE <<Head(elements).node>> \o NodesOf(Tail(elements))

\* one traversal from a root node at depth 0: the nodes it visits (on Linux:
\* the nodes it collects), in order
Traverse ==
    \E root \in Nodes, platform \in {"mac", "win", "lin"} :
        /\ call' = [NoCall EXCEPT
                      !.op = "traverse", !.method = platform, !.id = <<root>>,
                      !.status = IF \E k \in Cyclic :
                                       /\ (0 - k) \in shown
                                       /\ k = root \/ (k \in shown /\ NodeTab[k].parent = root)
                                 THEN "cyclic" ELSE "tree",
                      !.elems = CASE platform = "mac" -> Mac_visit(root, 0, shown)
                                  [] platform = "win" -> Win_visit(root, 0, shown)
                                  [] OTHER -> NodesOf(Lin_collect_all_elements(
                                                        root, 0, "window", shown))]
        /\ UNCHANGED <<running, frontmost, shown, win, mac, lin, shot, crew, agent>>

InitTraverse ==
    /\ running = Apps /\ frontmost = 1 /\ shown = Nodes
    /\ win = WinOff /\ mac = MacOff /\ lin = LinOff /\ shot = ShotOff /\ crew = CrewIdle /\ agent = AgentIdle /\ call = NoCall

NextTraverse == TreeMutate \/ Traverse

SpecTraverse == InitTraverse /\ [][NextTraverse]_vars

-----------------------------------------------------------------------------
(* Claims about the Windows backend and its registry *)

\* C2: click_by_id on an id whose registry status is stale returns the
\* failure that tells the caller to refresh; it dispatches no click (native
\* or coordinate), attempts no click method, and leaves the registry and the
\* caches as they were (no re-traversal, no re-resolution, no retry).
C2_StaleClickIsRefused ==
    [][(call'.op = "click_by_id" /\ win.available /\ Reg_status(win, call'.id) = "stale")
        => /\ ~call'.ok
           /\ call'.msg = "stale_refresh"
           /\ call'.clicks = <<>>
           /\ call'.trace = <<>>
           /\ win' = win]_vars

C2_Witness ==
    /\ call.op = "click_by_id"
    /\ call.status = "stale"
    /\ call.msg = "stale_refresh"

C4_StaleUntilReRegistered ==
    [][/\ ((call'.op = "invalidate_cache"
              \/ (call'.op \in {"click_by_id", "click_element"} /\ call'.ok))
            => \A id \in DOMAIN win'.reg : Reg_status(win', id) = "stale")
       /\ \A id \in DOMAIN win.reg :
            (Reg_status(win, id) = "stale" /\ Reg_status(win', id) # "stale")
                => /\ call'.op \in {"get_elements", "click_element"}
                   /\ Reg_status(win', id) = "fresh"
                   /\ win'.reg[id].epoch = win.epoch]_vars

C4_Witness ==
    /\ call.op = "click_by_id"
    /\ call.ok
    /\ \E id \in DOMAIN win.reg : Reg_status(win, id) = "stale"

-----------------------------------------------------------------------------
(* Claims about click requests (ClickElementTool._run over the macOS backend) *)

\* the entries of a trace
InTrace(x, trace) == \E i \in 1..Len(trace) : trace[i] = x

\* some running application matches the name
AppIsRunning(run, app_name) == \E a \in run : matches_name(AppName[a], app_name)

\* C1: a click request that names an application which no running
\* application matches ends with an app-not-found failure and dispatches no
\* click of any kind.
C1_MissingAppNoClick ==
    [][(call'.op = "click_request" /\ mac.available /\ call'.app # <<>>
          /\ ~AppIsRunning(running, call'.app))
        => /\ ~call'.ok
           /\ call'.clicks = <<>>]_vars

\* C5: after a click request that reports success the backend's cached
\* element data of the application is invalidated, whichever tier clicked:
\* the next get_elements for the application traverses again instead of
\* returning a list captured before the click.
C5_SuccessInvalidates ==
    [][(call'.op = "click_request" /\ call'.ok /\ call'.app # <<>> /\ mac.available)
        => \A io \in BOOLEAN :
              ElemKey(call'.app, io) \notin DOMAIN Mac_drop_recent(mac').elems]_vars

\* C6 as stated: the vision tier is entered only if the backend is
\* unavailable or was queried for the label and produced no candidate.
C6_VisionOnlyAfterQuery ==
    [][(call'.op = "click_request" /\ InTrace("ocr", call'.trace))
        => \/ ~mac.available
           \/ call'.trace = <<"1A", "1B", "ocr">> \o SubSeq(call'.trace, 4, Len(call'.trace))
       ]_vars

\* C6, amended: the vision tier is entered only if the backend is
\* unavailable, or the request names no application (so there is nothing to
\* query), or both accessibility steps were tried and neither produced a
\* candidate for the label; once the backend produced a candidate the vision
\* tier is not entered.
C6_VisionOnlyAfterMiss ==
    [][(call'.op = "click_request" /\ InTrace("ocr", call'.trace))
        => \/ (~mac.available /\ ~InTrace("1A", call'.trace)
                 /\ ~InTrace("1B", call'.trace))
           \/ (call'.app = <<>> /\ ~InTrace("1A", call'.trace)
                 /\ ~InTrace("1B", call'.trace))
           \/ (mac.available /\ call'.app # <<>>
                 /\ call'.trace = <<"1A", "1B", "ocr">>
                        \o SubSeq(call'.trace, 4, Len(call'.trace)))]_vars

C6_Witness ==
    /\ call.op = "click_request"
    /\ mac.available
    /\ call.app # <<>>
    /\ call.trace = <<"1A", "1B", "ocr", "hit">>
    /\ call.ok

\* C7: no click is dispatched at a vision candidate whose confidence does
\* not exceed the minimum confidence.
C7_NoLowConfidenceClick ==
    (call.op = "click_request" /\ call.method = "ocr" /\ call.clicks # <<>>)
        => call.conf > MinConfidence

\* C8: a backend operation given an application name returns only elements
\* of an application whose name matches the requested one; it never
\* substitutes the frontmost application.
C8_NoFrontmostSubstitution ==
    (call.op = "get_all_ui_elements" /\ call.app # <<>>)
        => \A i \in 1..Len(call.elems) :
              Lin_name_matches(call.app, AppName[NodeTab[call.elems[i].node].app])

\* C9: click_by_id on a registered element tries the element's own native
\* action first, then the nearest clickable ancestor, then the coordinate
\* click, each only after the earlier ones failed, and fails only after all
\* three were tried.
C9_ClickOrder ==
    (call.op = "click_by_id" /\ call.msg \notin {"unavailable", "not_found"})
        => /\ \E k \in 1..3 : call.trace = SubSeq(<<"native", "parent", "coord">>, 1, k)
           /\ ~call.ok => call.trace = <<"native", "parent", "coord">>

\* C10: a click request whose accessibility tier failed does not report
\* failure before the vision tier was tried.
C10_FailureOnlyAfterVision ==
    (call.op = "click_request" /\ ~call.ok
       /\ (InTrace("1A", call.trace) \/ InTrace("1B", call.trace)))
        => InTrace("ocr", call.trace)

-----------------------------------------------------------------------------
(* Claims about element geometry, vision coordinates and scoring *)

\* bounds <<x, y, w, h>> of positive size that lie entirely inside the display
InDisplay(b) ==
    /\ Len(b) = 4
    /\ b[3] > 0 /\ b[4] > 0
    /\ b[1] >= 0 /\ b[2] >= 0
    /\ b[1] + b[3] <= screen_width
    /\ b[2] + b[4] <= screen_height

\* C11: every element returned by get_elements and every registered element
\* has bounds of positive size that lie entirely inside the display.
C11_BoundsInsideDisplay ==
    /\ \A id \in DOMAIN mac.registry : InDisplay(mac.registry[id].bounds)
    /\ call.op = "get_elements"
         => \A i \in 1..Len(call.elems) : InDisplay(call.elems[i].bounds)

\* the origin, in screen coordinates, of the crop of the screenshot to the
\* window of the request's application; <<0, 0>> when it is not cropped
CropOrigin(st, run, front, app_name) ==
    IF app_name = <<>> \/ ~st.available THEN <<0, 0>>
    ELSE Bind(Mac_get_app_window_bounds(st, run, front, app_name).bounds,
              LAMBDA b : IF b = <<>> THEN <<0, 0>> ELSE <<b[1], b[2]>>)

\* C12: every click of the OCR or fuzzy tier is dispatched at the OCR center
\* divided by the scaling factor (truncated) plus the origin of the window
\* crop, which is zero when the screenshot was not cropped.
C12_VisionClickCoordinates ==
    [][(call'.op = "click_request" /\ call'.method = "ocr" /\ call'.clicks # <<>>)
        => /\ call'.cand # <<>>
           /\ call'.clicks[1].at =
                <<(call'.cand[1].item.center[1] \div call'.cand[1].scaling)
                     + CropOrigin(mac, running, frontmost, call'.app)[1],
                  (call'.cand[1].item.center[2] \div call'.cand[1].scaling)
                     + CropOrigin(mac, running, frontmost, call'.app)[2]>>]_vars

\* the scenario of the specification: "OK" read at (240, 680) with scaling
\* factor 2 and no crop is clicked at (120, 340)
C12_Witness ==
    /\ call.op = "click_request"
    /\ call.method = "ocr"
    /\ call.app = <<>>
    /\ call.cand # <<>>
    /\ call.cand[1].item.center = <<240, 680>>
    /\ call.cand[1].scaling = 2
    /\ call.clicks # <<>>
    /\ call.clicks[1].at = <<120, 340>>

\* the match class of a text against a target: 4 exact, 3 prefix,
\* 2 substring, 1 reverse-prefix (of at least three characters), 0 no match
MatchClass(text, target) ==
    IF text = target THEN 4
    ELSE IF StartsWith(text, target) THEN 3
    ELSE IF Contains(target, text) THEN 2
    ELSE IF StartsWith(target, text) /\ Len(text) >= 3 THEN 1
    ELSE 0

\* C13: a candidate of a higher match class (exact > prefix > substring >
\* reverse-prefix) scores strictly higher than a candidate of a lower class,
\* whatever the confidences and text lengths.
C13_ClassPrecedence ==
    call.op = "score"
        => \A i, j \in 1..Len(call.elems) :
              (/\ MatchClass(LowerStr(call.elems[i].text), call.target)
                    > MatchClass(LowerStr(call.elems[j].text), call.target)
               /\ MatchClass(LowerStr(call.elems[j].text), call.target) > 0)
              => /\ call.elems[i].score # <<>>
                 /\ call.elems[j].score # <<>>
                 /\ call.elems[i].score[1] > call.elems[j].score[1]

\* C14: with the spatial hint "bottom" the vision tier clicks only at a text
\* candidate whose center lies in the lower 40% of the screenshot
\* (center y > 0.6 x height), whichever OCR stage produced it.
C14_BottomHintRespected ==
    (/\ call.op = "click_request"
     /\ call.cand # <<>>
     /\ call.clicks # <<>>
     /\ Contains(sBottom, LowerStr(call.hint)))
        => 10 * call.cand[1].item.center[2] > 6 * call.cand[1].size[2]

-----------------------------------------------------------------------------
(* Claims about the accessibility tier of a click request *)

\* the elements the backend finds for the label of a request
FoundElements(st, run, front, sh, target, app_name) ==
    Mac_find_elements(st, run, front, sh, target, app_name).elements

-----------------------------------------------------------------------------
(* Claims about the traversal depth *)

\* the depth of a node in the tree of its window
RECURSIVE TreeDepth(_)
TreeDepth(n) == IF NodeTab[n].parent = 0 THEN 0 ELSE 1 + TreeDepth(NodeTab[n].parent)

\* how often node n occurs among the visits
VisitCount(n, visits) == Cardinality({i \in 1..Len(visits) : visits[i] = n})

\* the depth of the deepest visit of a traversal from root: a node that is
\* visited k times is its own child and its k-th visit is k - 1 levels below
\* its first
DeepestVisit(visits, root) ==
    CHOOSE d \in 0..100 :
        /\ \E i \in 1..Len(visits) :
              d = TreeDepth(visits[i]) - TreeDepth(root) + VisitCount(visits[i], visits) - 1
        /\ \A i \in 1..Len(visits) :
              d >= TreeDepth(visits[i]) - TreeDepth(root) + VisitCount(visits[i], visits) - 1

\* C16 as stated: every traversal stops at a fixed maximum depth between 20
\* and 25, so that on a cyclic tree no visit is deeper than 25.
C16_DepthAtMost25 ==
    (call.op = "traverse" /\ call.status = "cyclic")
        => DeepestVisit(call.elems, call.id[1]) >= 20 /\ DeepestVisit(call.elems, call.id[1]) <= 25

\* C16 amended: every traversal terminates, and on a cyclic tree its deepest
\* visit is at the backend's fixed maximum depth: 25 on Windows and on Linux,
\* 40 on macOS; on a tree without a cycle no node is visited twice.
C16_DepthAtMostMax ==
    call.op = "traverse"
        => IF call.status = "cyclic"
           THEN DeepestVisit(call.elems, call.id[1]) =
                  (CASE call.method = "mac" -> 40
                     [] call.method = "win" -> 25
                     [] OTHER -> 25)
           ELSE \A i, j \in 1..Len(call.elems) :
                   call.elems[i] = call.elems[j] => i = j

\* a macOS traversal of a cyclic tree that stopped at depth 40
C16_Witness ==
    /\ call.op = "traverse"
    /\ call.method = "mac"
    /\ call.status = "cyclic"
    /\ call.id = <<4>>
    /\ Len(call.elems) = 41

-----------------------------------------------------------------------------
(* Claims about the registry's entries and epoch *)

\* C17: a successful click invalidates the registry's entries without
\* deleting them: every id issued before the click is still known to the
\* registry afterwards (its lookup is not the not-found of a never issued id).
C17_InvalidatedNotDeleted ==
    [][(call'.op = "click_by_id" /\ call'.ok)
        => \A id \in DOMAIN mac.registry : id \in DOMAIN mac'.registry]_vars

\* C18: the registry epoch never decreases, and every successful click
\* (click_by_id, click_element, click_element_or_parent) and every
\* invalidate_cache strictly increases it.
C18_EpochStrictlyMonotonic ==
    [][/\ win'.epoch >= win.epoch
       /\ (\/ /\ call'.op \in {"click_by_id", "click_element", "click_element_or_parent"}
              /\ call'.ok
           \/ call'.op = "invalidate_cache")
            => win'.epoch > win.epoch]_vars

\* a click on an ancestor by click_element_or_parent that advanced the epoch
C18_Witness ==
    /\ call.op = "click_element_or_parent"
    /\ call.ok
    /\ call.msg = "parent"
    /\ win.epoch > 0

-----------------------------------------------------------------------------
(* Claims about the cached application handle *)

\* C19: the cached application handle is invalidated on cache clear and on
\* an application switch: the lookup that follows clear_app_cache, or that
\* follows set_active_app and asks for a different application, is not
\* answered from the cache.
C19_SwitchInvalidatesHandle ==
    [][(/\ call'.op = "get_app"
        /\ \/ call.op = "clear_app_cache"
           \/ /\ call.op = "set_active_app"
              /\ LowerStr(call'.app) # LowerStr(call.app))
        => call'.trace # <<"cache">>]_vars

-----------------------------------------------------------------------------
(* Claims about the screenshot tool's coordinates *)

\* C20: a conversion that follows a capture of the active window returns
\* the point offset by the origin that capture reported: the origin of the
\* captured window, and (0, 0) when the capture fell back to the full screen.
C20_OffsetOfMostRecentCapture ==
    [][(/\ call.op = "capture_active_window" /\ call.status # "raised"
        /\ call'.op = "window_to_screen_coords")
        => call'.target = <<call'.id[1] + call.id[1], call'.id[2] + call.id[2]>>]_vars

-----------------------------------------------------------------------------
(* Claims about the capture of the active window *)

\* the window a capture is asked for exists on layer 0 and lies fully inside
\* the display
Isolable(window_list, app_name) ==
    /\ Shot_target_window(window_list, app_name) # <<>>
    /\ InDisplay(<<Shot_target_window(window_list, app_name)[1].x,
                   Shot_target_window(window_list, app_name)[1].y,
                   Shot_target_window(window_list, app_name)[1].w,
                   Shot_target_window(window_list, app_name)[1].h>>)

\* C21: capture_active_window never raises; it reports a full-screen capture
\* when the target window is not found, is partly outside the display or the
\* platform capture errors, and otherwise the window's region with bounds
\* fully inside the screen.
C21_WindowOrFullScreen ==
    [][call'.op = "capture_active_window"
        => /\ call'.status \in {"window", "fullscreen"}
           /\ call'.status = "fullscreen"
                <=> (~Isolable(call'.elems, call'.app) \/ call'.msg # "")
           /\ call'.status = "window"
                => InDisplay(call'.id)]_vars

-----------------------------------------------------------------------------
(* Claims about the freshness of returned elements *)

\* C22: every element that get_elements returns, from a traversal or from
\* the element cache, has an element_id that the registry reports fresh at
\* the moment of return (Windows backend).
C22_ReturnedIdsAreFresh ==
    (call.op = "get_elements" /\ win.available)
        => \A i \in 1..Len(call.elems) :
              Reg_status(win, call.elems[i].element_id) = "fresh"

-----------------------------------------------------------------------------
(* Claims about the pointer actions of a click request *)

\* C23: a click request of type t that reports success dispatched exactly
\* one pointer action, and that action is of type t.
C23_OneClickOfRequestedType ==
    [][(call'.op = "click_request" /\ call'.ok)
        => /\ Len(call'.clicks) = 1
           /\ call'.clicks[1].kind = call'.status]_vars

-----------------------------------------------------------------------------
(* Claims about what a failed click leaves behind *)

\* C24: a click_by_id that returns failure (backend unavailable, unknown or
\* stale id, every click method failing) leaves the epoch, the registry,
\* the element cache and the app cache as they were.
C24_FailedClickChangesNothing ==
    [][(call'.op = "click_by_id" /\ ~call'.ok)
        => /\ win'.epoch = win.epoch /\ win'.reg = win.reg
           /\ win'.elems = win.elems /\ win'.apps = win.apps
           /\ mac' = mac]_vars

\* every click method failed on a fresh element while lists are cached
C24_Witness ==
    /\ call.op = "click_by_id"
    /\ ~call.ok
    /\ call.status = "fresh"
    /\ call.msg = "coord_failed"
    /\ DOMAIN win.elems # {}
    /\ DOMAIN win.apps # {}

-----------------------------------------------------------------------------
(* Claims about the walk to a clickable ancestor *)

\* the ancestors of a node, nearest first, at most limit of them
RECURSIVE AncestorsOf(_, _)
AncestorsOf(n, limit) ==
    IF limit = 0 \/ NodeTab[n].parent = 0 THEN <<>>
    ELSE <<NodeTab[n].parent>> \o AncestorsOf(NodeTab[n].parent, limit - 1)

\* the elements of a sequence, as a set
Range(seq) == {seq[i] : i \in 1..Len(seq)}

-----------------------------------------------------------------------------
(* Claims about cancelled tasks *)

\* C26: after the user cancelled a task with ESC, the worker of that task
\* dispatches no further click or input action.
C26_NoClickAfterCancel ==
    [][call'.op = "dispatch_click" => ~crew.workers[call'.conf].cancelled]_vars

-----------------------------------------------------------------------------
(* Claims about the retries of the Linux application lookup *)

\* C27: get_all_ui_elements gives up on the named application (no
\* application reference, or no window) only after accessibility_retry_count
\* attempts; a failed first lookup does not end the retry loop.
C27_GivesUpAfterAllAttempts ==
    [][(/\ call'.op = "get_all_ui_elements" /\ call'.app # <<>>
        /\ call'.status \in {"no_app", "no_windows"})
        => call'.conf = accessibility_retry_count]_vars

-----------------------------------------------------------------------------
(* Claims about the loop of GUIAgent.execute_task *)

\* the failed steps among the step results consumed so far
FailedSteps(history) == Cardinality({i \in DOMAIN history : ~history[i].success})

\* the last n step results are successful clicks at one and the same point
SameClickRun(history, n) ==
    /\ Len(history) >= n
    /\ \A i \in (Len(history) - n + 1)..Len(history) :
          /\ history[i].success
          /\ history[i].coordinates # <<>>
          /\ history[i].coordinates = history[Len(history)].coordinates

\* C28: execute_task returns its "Failed after N attempts" result only once
\* three steps have failed; after one or two failed steps the loop goes on.
C28_FailsAfterThreeFailures ==
    [][(call'.op = "agent_step" /\ call'.status = "failed")
        => FailedSteps(agent'.history) >= 3]_vars

\* C29: execute_task returns its "stuck in loop" failure exactly on the third
\* consecutive successful click at identical coordinates.
C29_StuckOnThirdIdenticalClick ==
    [][call'.op = "agent_step"
        => (call'.status = "stuck" <=> SameClickRun(agent'.history, 3))]_vars

-----------------------------------------------------------------------------
(* Claims about the categories of get_all_ui_elements *)

MenuRoles == {"menu bar", "menu", "menu item"}

\* the role of the nearest proper ancestor of a node that is a menu bar, a
\* menu or a menu item; "" when it has none
RECURSIVE NearestMenuAncestor(_)
NearestMenuAncestor(n) ==
    IF NodeTab[n].parent = 0 THEN ""
    ELSE IF LinRole(NodeTab[n].parent) \in MenuRoles THEN LinRole(NodeTab[n].parent)
    ELSE NearestMenuAncestor(NodeTab[n].parent)

\* some proper ancestor of the node is a menu bar
RECURSIVE InMenuBarSubtree(_)
InMenuBarSubtree(n) ==
    /\ NodeTab[n].parent # 0
    /\ \/ LinRole(NodeTab[n].parent) = "menu bar"
       \/ InMenuBarSubtree(NodeTab[n].parent)

\* every returned element is in one of the five categories, and a node is
\* never returned in two of them
OneCategoryEach(elements) ==
    /\ \A i \in DOMAIN elements : elements[i].category \in Range(LinCategories)
    /\ \A i, j \in DOMAIN elements :
          elements[i].node = elements[j].node
              => elements[i].category = elements[j].category

====
